---- MODULE Spec2Model ----
(***************************************************************************)
(* Acquisition pipeline of the LEO BCI application:                        *)
(*   utils/serial_backend.py  SerialThread (run / stop / _push / _slice),  *)
(*                            DummySerial, find_usb                        *)
(*   utils/config_manager.py  configuration                                *)
(*   bci_launcher.py          Launcher._open_serial / reconnect_serial     *)
(*   the consumers' ticks     plot panels, recorder, inference             *)
(*                                                                         *)
(* Floating point samples are modelled by integers and the IIR filter      *)
(* coefficients by small integer coefficient vectors; the recurrences are  *)
(* the ones scipy.signal.lfilter evaluates (direct form II transposed).    *)
(***************************************************************************)
EXTENDS Integers, Sequences, FiniteSets, TLC

VARIABLES
    cfg,        \* utils.config_manager._cfg
    buffer,     \* SerialThread.buffer : 9 lists of filtered values
    times,      \* SerialThread.times  : list of sample indices
    zi_n,       \* SerialThread.zi_n   : notch state per channel
    zi_bp,      \* SerialThread.zi_bp  : band-pass state per channel
    pushed,     \* history of the raw vectors handed to _push (ghost)
    wr,         \* the acquisition thread's position inside _push
    rd,         \* one consumer's position inside get_*_data / _slice
    ok,         \* SerialThread.ok
    running,    \* SerialThread.running
    sp,         \* SerialThread.sp : "none" (None), "open" or "closed"
    th,         \* the acquisition thread: position in run(), line read, exception
    tx,         \* bytes written to the device
    rx,         \* lines waiting in the port's input buffer
    stp,        \* the caller's position inside stop()
    seen,       \* lines run() has read and dealt with (ghost)
    heap,       \* the source objects created so far (DummySerial, SerialThread)
    ln,         \* Launcher: its state and Launcher.serial (an index into heap)
    refs,       \* the .serial each widget holds (an index into heap)
    panels,     \* MonitorWindow.panels : the .serial of each docked PlotPanel
    got,        \* the last window a widget read from its source
    ctor,       \* SerialThread.__init__ : how far it got, and what it raised
    dm,         \* one DummySerial shared by two callers: t, and each call's position
    calc,       \* what the last tick of a plot panel drew, or raised
    rec,        \* EEGRecorderWidget: the recording sequence and its save
    twin,       \* a second SerialThread fed beside the first: its filters and store
    fsr,        \* FullScreenRecorder: phase, timers, collected snapshots
    cp,         \* ControlPanelWidget: its workers and the toggle button
    cm          \* ClassManager: the class list and the last message shown

storeVars == <<buffer, times, zi_n, zi_bp, pushed>>
runVars   == <<ok, running, sp, th, tx, rx, stp, seen>>
lnVars    == <<heap, ln, refs, panels, got>>
auxVars   == <<ctor, dm, calc, rec>>
moreVars  == <<twin, fsr, cp, cm>>
vars == <<cfg, buffer, times, zi_n, zi_bp, pushed, wr, rd,
          ok, running, sp, th, tx, rx, stp, seen, heap, ln, refs, panels, got,
          ctor, dm, calc, rec, twin, fsr, cp, cm>>

(***************************************************************************)
(* Bounds of the model                                                     *)
(***************************************************************************)
MaxPush  == 3       \* _push calls explored, whole calls
MaxLen   == 3       \* largest explicit window length a caller asks for
MaxPushC == 2       \* _push calls explored, interleaved with a reader
MaxLines == 2       \* lines the device sends in one session
MaxReconnect == 2   \* presses of the reconnect button
MaxPanels == 4      \* panels docked in the monitor window
MaxT     == 4       \* largest sample index a synthetic generator reaches
MaxChunks == 3      \* calls of _make_chunk explored, interleaved

(***************************************************************************)
(* Program constants                                                       *)
(***************************************************************************)
NCH == 9            \* channels: buffer = [[] for _ in range(9)]

Max(a, b) == IF a >= b THEN a ELSE b
Min(a, b) == IF a <= b THEN a ELSE b

RECURSIVE SumSeq(_)
SumSeq(s) == IF s = <<>> THEN 0 ELSE Head(s) + SumSeq(Tail(s))

RECURSIVE Product(_)
Product(s) == IF s = <<>> THEN 1 ELSE Head(s) * Product(Tail(s))

(***************************************************************************)
(* Configuration.  _read() merges config.json over DEFAULTS, so every key  *)
(* is an input of the program; the model draws it from small values.       *)
(***************************************************************************)
ConfigFiles ==
    [DATA_LENGTH : {2}, PLOT_LENGTH : {2}, FFT_LENGTH : {3}, SAMPLE_RATE : {8},
     NOTCH_FREQ : {2}, BANDPASS_LO : {1}, BANDPASS_HI : {3}]

CfgGet(key) == cfg[key]

(***************************************************************************)
(* Filters.  b/a are the (normalised, a[1] = 1) coefficient vectors of     *)
(* iirnotch(...) and butter(..., btype='band'); integer stand-ins with the *)
(* DC gains of the originals (notch 1, band-pass 0).                       *)
(***************************************************************************)
b_notch == <<1, -1, 1>>
a_notch == <<1, 1, -1>>
b_band  == <<1, 0, -1>>
a_band  == <<1, -1, 1>>

\* scipy.signal.lfilter_zi: the state of the step response's steady state.
RECURSIVE ZiFrom(_, _, _, _)
ZiFrom(b, a, g, k) ==
    IF k > Len(b) - 1 THEN <<>>
    ELSE LET rest == ZiFrom(b, a, g, k + 1)
             nxt  == IF rest = <<>> THEN 0 ELSE Head(rest)
         IN  <<b[k + 1] - a[k + 1] * g + nxt>> \o rest

LfilterZi(b, a) == ZiFrom(b, a, SumSeq(b) \div SumSeq(a), 1)

\* scipy.signal.lfilter(b, a, [v], zi=z): one step of the recurrence.
Lfilter1(b, a, v, z) ==
    LET n == Len(b) - 1
        y == b[1] * v + z[1]
    IN  [y |-> y,
         z |-> [k \in 1..n |->
                  b[k + 1] * v - a[k + 1] * y + (IF k < n THEN z[k + 1] ELSE 0)]]

\* "y, self.zi_n[i] = lfilter(...)": the state kept for the next call.
NextZiDropped(old, new) == old
NextZi(old, new) == new

\* the same loop with one state vector shared by the nine channels
NotchStageShared(vals) == [i \in 1..NCH |-> Lfilter1(b_notch, a_notch, vals[i], zi_n[1])]

\* first loop of _push
NotchStage(vals) == [i \in 1..NCH |-> Lfilter1(b_notch, a_notch, vals[i], zi_n[i])]
\* second loop of _push, on the notch outputs
BandStage(fv) == [i \in 1..NCH |-> Lfilter1(b_band, a_band, fv[i].y, zi_bp[i])]

(***************************************************************************)
(* Inputs                                                                  *)
(***************************************************************************)
SampleVectors ==
    { <<1, 2, 3, 4, 5, 6, 7, 8, 9>>, <<2, 0, -1, 1, 0, 3, -2, 1, 0>> }

\* a call's length argument: omitted (None) or an explicit integer
NoArg    == [given |-> FALSE, n |-> 0]
Arg(n)   == [given |-> TRUE, n |-> n]

\* "length or cfg.get(KEY)"
LengthOr(arg, key) == IF arg.given /\ arg.n # 0 THEN arg.n ELSE CfgGet(key)

(***************************************************************************)
(* SerialThread._push                                                      *)
(***************************************************************************)
WrIdle == [pc |-> "idle", fv |-> <<>>, i |-> 0]

\* the two loops in the other order: band-pass on the raw values, notch on
\* the band-pass outputs
FilteredBandFirst(vals) ==
    LET bp == [i \in 1..NCH |-> Lfilter1(b_band, a_band, vals[i], zi_bp[i])]
        n  == [i \in 1..NCH |-> Lfilter1(b_notch, a_notch, bp[i].y, zi_n[i])]
    IN  [zn  |-> [i \in 1..NCH |-> NextZi(zi_n[i], n[i].z)],
         zbp |-> [i \in 1..NCH |-> NextZi(zi_bp[i], bp[i].z)],
         fv  |-> [i \in 1..NCH |-> n[i].y]]

\* the two filter loops of _push: new states and the filtered vector
Filtered(vals) ==
    LET n  == NotchStage(vals)
        bp == BandStage(n)
    IN  [zn  |-> [i \in 1..NCH |-> NextZi(zi_n[i], n[i].z)],
         zbp |-> [i \in 1..NCH |-> NextZi(zi_bp[i], bp[i].z)],
         fv  |-> [i \in 1..NCH |-> bp[i].y]]

\* an index that lags one behind: the last entry's own position
NextIndexStale == Max(0, Len(times) - 1)

\* "self.times.append(len(self.times))"
NextIndex == Len(times)

\* the effect of one whole call of _push
Store(vals) ==
    /\ LET f == Filtered(vals)
       IN  /\ zi_n'   = f.zn
           /\ zi_bp'  = f.zbp
           /\ buffer' = [i \in 1..NCH |-> Append(buffer[i], f.fv[i])]
    /\ times' = Append(times, NextIndex)
    /\ pushed' = Append(pushed, vals)

Push(vals) ==
    /\ wr.pc = "idle"
    /\ Len(pushed) < MaxPush
    /\ Store(vals)
    /\ UNCHANGED <<cfg, moreVars, auxVars, lnVars, wr, rd, runVars>>

(***************************************************************************)
(* _push as the acquisition thread executes it beside a reader.  The       *)
(* filter loops touch only zi_n / zi_bp and locals, which no reader reads; *)
(* the ten appends are separate steps, each one a point where the          *)
(* interpreter may switch to a consumer's thread.                          *)
(***************************************************************************)
PushBegin(vals) ==
    /\ wr.pc = "idle"
    /\ Len(pushed) < MaxPushC
    /\ LET f == Filtered(vals)
       IN  /\ zi_n'   = f.zn
           /\ zi_bp'  = f.zbp
           /\ wr' = [pc |-> "store", fv |-> f.fv, i |-> 1]
    /\ pushed' = Append(pushed, vals)
    /\ UNCHANGED <<cfg, moreVars, auxVars, lnVars, buffer, times, rd, runVars>>

PushStore ==
    /\ wr.pc = "store"
    /\ buffer' = [buffer EXCEPT ![wr.i] = Append(@, wr.fv[wr.i])]
    /\ wr' = IF wr.i = NCH THEN [wr EXCEPT !.pc = "times"]
                           ELSE [wr EXCEPT !.i = @ + 1]
    /\ UNCHANGED <<cfg, moreVars, auxVars, lnVars, times, zi_n, zi_bp, pushed, rd, runVars>>

PushTimes ==
    /\ wr.pc = "times"
    /\ times' = Append(times, NextIndex)
    /\ wr' = WrIdle
    /\ UNCHANGED <<cfg, moreVars, auxVars, lnVars, buffer, zi_n, zi_bp, pushed, rd, runVars>>

(***************************************************************************)
(* Window reads: get_plot_data / get_fft_data -> _slice                    *)
(***************************************************************************)
NoResult == [t |-> <<>>, fs |-> 0, data |-> <<>>, shape |-> <<>>, raised |-> FALSE]

RdIdle == [pc |-> "idle", kind |-> "none", meth |-> "none", arg |-> NoArg,
           length |-> 0, start |-> 0, fs |-> 0, hi |-> 0, i |-> 0, data |-> <<>>,
           res |-> NoResult, out |-> "none",
           S |-> 0]      \* S: len(self.times) when the call was made (ghost)

\* the calls the consumers make
ConsumerCalls ==
    \* any caller of the window API
       { [kind |-> "api", meth |-> m, arg |-> a] :
             m \in {"plot", "fft"}, a \in {NoArg} \cup {Arg(n) : n \in 0..MaxLen} }
    \* PlotPanel._waveform / _eight, MonitorPanel.update_panel: get_plot_data()
  \cup { [kind |-> "waveform", meth |-> "plot", arg |-> NoArg] }
    \* PlotPanel._spectrum: get_fft_data() (trainer), get_fft_data(length=nfft) (monitor)
  \cup { [kind |-> "spectrum", meth |-> "fft", arg |-> a] :
             a \in {NoArg, Arg(CfgGet("FFT_LENGTH"))} }
    \* PlotPanel._band: length=1024 (trainer); _bandpower: length=FFT_LENGTH (monitor)
  \cup { [kind |-> "band", meth |-> "plot", arg |-> a] :
             a \in {Arg(1024), Arg(CfgGet("FFT_LENGTH"))} }
    \* FullScreenRecorder.collect_sample: get_plot_data() inside try/except
  \cup { [kind |-> "recorder", meth |-> "plot", arg |-> NoArg] }
    \* AIInferenceWidget._tick, InferenceWorker.run: length=num_samples
  \cup { [kind |-> "infer", meth |-> "plot", arg |-> Arg(n)] : n \in 1..MaxLen }

\* get_plot_data / get_fft_data: the length handed to _slice
SliceLength(meth, arg) ==
    LengthOr(arg, IF meth = "plot" THEN "PLOT_LENGTH" ELSE "FFT_LENGTH")

\* "if not self.times"
StoreEmptyByChannel == buffer[1] = <<>>
StoreEmpty == times = <<>>

\* "max(0, len(self.times) - length)"
SliceStart(length) == Max(0, Len(times) - length)

\* ch[start:]
Drop(s, start) == SubSeq(s, start + 1, Len(s))

\* np.arange(start, hi)
Arange(lo, hi) == [k \in 1..Max(0, hi - lo) |-> lo + k - 1]

Ragged(data) == \E i \in 1..Len(data) : Len(data[i]) # Len(data[1])

\* np.array([]), np.array([]) : both of shape (0,)
EmptyResult == [NoResult EXCEPT !.shape = <<0>>]

\* "return t_sec, np.array(data)": t_sec is idx / fs, kept as idx and fs.
\* For rows of unequal length np.array raises ValueError (numpy >= 1.24)
\* or builds a 1-d object array (older numpy): raises is either.
WindowResult(start, hi, fs, data, raises) ==
    [t      |-> IF raises THEN <<>> ELSE Arange(start, hi),
     fs     |-> fs,
     data   |-> IF raises THEN <<>> ELSE data,
     shape  |-> IF raises THEN <<>>
                ELSE IF Ragged(data) THEN <<NCH>>
                ELSE <<NCH, Len(data[1])>>,
     raised |-> raises]

\* one whole call of _slice
Slice(length) ==
    IF StoreEmpty THEN EmptyResult
    ELSE LET start == SliceStart(length)
         IN  WindowResult(start, Len(times), CfgGet("SAMPLE_RATE"),
                          [i \in 1..NCH |-> Drop(buffer[i], start)], FALSE)

(***************************************************************************)
(* What each consumer does with the window it got.                         *)
(*   panels:    "if d.size == 0: return"                                   *)
(*   recorder:  try: "if data.size > 0: append" except: print              *)
(*   inference: "if data.shape[1] < num_samples: return / sleep; continue" *)
(***************************************************************************)
PanelTick(res) ==
    IF res.raised THEN "raise"
    ELSE IF Product(res.shape) = 0 THEN "skip" ELSE "use"

RecorderTick(res) ==
    IF res.raised THEN "skip"
    ELSE IF Product(res.shape) > 0 THEN "use" ELSE "skip"

InferTick(res, samples) ==
    IF res.raised THEN "raise"
    ELSE IF Len(res.shape) < 2 THEN "raise"         \* shape[1]: IndexError
    ELSE IF res.shape[2] < samples THEN "skip" ELSE "use"

Outcome(kind, arg, res) ==
    CASE kind = "recorder" -> RecorderTick(res)
      [] kind = "infer"    -> InferTick(res, arg.n)
      [] kind = "api"      -> IF res.raised THEN "raise" ELSE "use"
      [] OTHER             -> PanelTick(res)

\* one whole tick of a consumer: the call and what it does with the window
Tick(c) ==
    /\ rd.pc = "idle"
    /\ wr.pc = "idle"
    /\ LET res == Slice(SliceLength(c.meth, c.arg))
       IN  rd' = [RdIdle EXCEPT !.kind = c.kind, !.meth = c.meth, !.arg = c.arg,
                                !.length = SliceLength(c.meth, c.arg),
                                !.res = res, !.out = Outcome(c.kind, c.arg, res),
                                !.S = Len(times)]
    /\ UNCHANGED <<cfg, moreVars, auxVars, lnVars, buffer, times, zi_n, zi_bp, pushed, wr, runVars>>

(***************************************************************************)
(* The store with whole operations: pushes and consumer ticks in any order *)
(***************************************************************************)
ThNew == [pc |-> "new", raw |-> <<>>, err |-> "none"]

\* SerialThread.__init__, the port opened (opened = TRUE) or the open failed
Constructed(opened) ==
    /\ running = FALSE
    /\ ok = opened
    /\ sp = IF opened THEN "open" ELSE "none"
    /\ buffer = [i \in 1..NCH |-> <<>>]
    /\ times = <<>>
    /\ zi_n  = [i \in 1..NCH |-> LfilterZi(b_notch, a_notch)]
    /\ zi_bp = [i \in 1..NCH |-> LfilterZi(b_band, a_band)]
    /\ pushed = <<>>
    /\ wr = WrIdle
    /\ rd = RdIdle
    /\ th = ThNew
    /\ tx = <<>>
    /\ rx = <<>>
    /\ stp = "idle"
    /\ seen = <<>>

\* the widgets that hold a source
Holders == {"trainer", "plot", "recorder", "infer", "monitor", "control"}

LnNone  == [pc |-> "none", serial |-> 0, first |-> "none", last |-> "none", n |-> 0,
            exc |-> "none"]
GotNone == [who |-> "none", kind |-> "none", n |-> 0]

\* no Launcher has been constructed
NoLauncher ==
    /\ heap = <<>>
    /\ ln = LnNone
    /\ refs = [c \in Holders |-> 0]
    /\ panels = <<>>
    /\ got = GotNone

\* fs: the local "fs = cfg.get("SAMPLE_RATE")" the filters are designed with
CtorNone  == [pc |-> "none",  exc |-> "none", fs |-> 0]
CtorBuilt == [pc |-> "built", exc |-> "none", fs |-> CfgGet("SAMPLE_RATE")]

\* the variables of the other parts of the program, at rest
\* the threads that call into the shared DummySerial: the GUI thread (timers
\* of the panels) and the control panel's InferenceWorker
Callers == {"gui", "worker"}
CallIdle == [pc |-> "idle", n |-> 0, lo |-> 0, hi |-> 0, tmp |-> 0]
DmIdle  == [t |-> 0, call |-> [c \in Callers |-> CallIdle], log |-> <<>>]

CalcNone == [kind |-> "none", out |-> "none", freqs |-> <<>>, curves |-> <<>>,
             bins |-> <<>>, act |-> {}, win |-> <<>>, xin |-> <<>>]
\* live: the FullScreenRecorder windows that exist; recorder: self.recorder;
\* timers: pending singleShot(500, start_next_recording); gen, made, fin,
\* outlived (ghost): the sequences started, the recorders created, what
\* finish_sequence found the last time it ran, and whether a window ever lived
\* on after self.recorder was rebound
RecIdle == [pc |-> "idle", info |-> [name |-> "", duration |-> 0], total |-> 0,
            current |-> 0, recordings |-> <<>>, asked |-> "", file |-> <<>>,
            exc |-> "none", live |-> {}, recorder |-> 0, timers |-> 0, gen |-> 0,
            made |-> 0, fin |-> <<>>, outlived |-> FALSE]

TwinNone == [on |-> FALSE, buffer |-> <<>>, zi_n |-> <<>>, zi_bp |-> <<>>,
             pushed |-> <<>>]
\* phase: current_phase; timer: 0 when self.timer is stopped, else k + 1 when
\* it runs with the interval phase_times[k]; shot: the pending
\* singleShot(phase_times[3], stop_and_continue); data: recording_data, each
\* snapshot kept as the sample indices it holds; log (ghost): the timer
\* periods that have elapsed, each with the phase it elapsed in; since
\* (ghost): len(times) when start_recording ran
FsrNone  == [pc |-> "none", phase |-> 0, timer |-> 0, shot |-> FALSE,
             is_recording |-> FALSE, sampling |-> FALSE, data |-> <<>>,
             emitted |-> <<>>, log |-> <<>>, since |-> 0, polls |-> 0]
\* inf, cam, utp: self.inf_worker, self.cam_worker, self.utp_worker, each
\* "none" (None), "running" or "ended" (the object is held, its run() has
\* returned); btn: the text of btn_run; checked: the Enable boxes ticked;
\* page: the launcher's stack; last (ghost): the handler that ran last
CpIdle   == [inf |-> "none", cam |-> "none", utp |-> "none", btn |-> "START ALL",
             checked |-> {}, page |-> "panel", last |-> "none"]
\* ClassManager. pc: "none" before the widget is built, then "open"; classes:
\* self.classes, each class with its duration in tenths; name_edit and
\* duration_edit: the texts of the two line edits; row: table.currentRow();
\* last, arg, prev (ghost): the handler that ran last, the name, duration
\* text and row it was called with, and self.classes before it ran
CmNone   == [pc |-> "none", classes |-> <<>>, name_edit |-> <<>>, duration_edit |-> <<>>,
             row |-> 0 - 1, last |-> "none",
             arg |-> [name |-> <<>>, dur |-> <<>>, row |-> 0 - 1], prev |-> <<>>]

MoreIdle ==
    /\ twin = TwinNone
    /\ fsr = FsrNone
    /\ cp = CpIdle
    /\ cm = CmNone

AuxIdle ==
    /\ ctor = CtorBuilt
    /\ dm = DmIdle
    /\ calc = CalcNone
    /\ rec = RecIdle
    /\ MoreIdle

Init ==
    /\ cfg \in ConfigFiles
    /\ Constructed(TRUE)
    /\ NoLauncher
    /\ AuxIdle

Next ==
    \/ \E v \in SampleVectors : Push(v)
    \/ \E c \in ConsumerCalls : Tick(c)

Spec == Init /\ [][Next]_vars

(***************************************************************************)
(* The store with the acquisition thread inside _push while a consumer is  *)
(* inside _slice: every read of self.times / self.buffer[i] is a step.     *)
(***************************************************************************)
ConcVectors == { <<1, 2, 3, 4, 5, 6, 7, 8, 9>> }

\* the reads followed step by step: get_plot_data with every kind of length
ConcCalls == { c \in ConsumerCalls : c.meth = "plot" /\ c.kind \in {"api", "recorder"} }

RdCall(c) ==
    /\ rd.pc = "idle"
    /\ rd' = [RdIdle EXCEPT !.pc = "check", !.kind = c.kind, !.meth = c.meth,
                            !.arg = c.arg, !.length = SliceLength(c.meth, c.arg),
                            !.S = Len(times)]
    /\ UNCHANGED <<cfg, moreVars, auxVars, lnVars, buffer, times, zi_n, zi_bp, pushed, wr, runVars>>

RdCheck ==
    /\ rd.pc = "check"
    /\ rd' = IF StoreEmpty
             THEN [rd EXCEPT !.pc = "done", !.res = EmptyResult]
             ELSE [rd EXCEPT !.pc = "start"]
    /\ UNCHANGED <<cfg, moreVars, auxVars, lnVars, buffer, times, zi_n, zi_bp, pushed, wr, runVars>>

RdStart ==
    /\ rd.pc = "start"
    /\ rd' = [rd EXCEPT !.pc = "idx", !.fs = CfgGet("SAMPLE_RATE"),
                        !.start = SliceStart(rd.length)]
    /\ UNCHANGED <<cfg, moreVars, auxVars, lnVars, buffer, times, zi_n, zi_bp, pushed, wr, runVars>>

RdIdx ==
    /\ rd.pc = "idx"
    /\ rd' = [rd EXCEPT !.pc = "data", !.hi = Len(times), !.i = 1]
    /\ UNCHANGED <<cfg, moreVars, auxVars, lnVars, buffer, times, zi_n, zi_bp, pushed, wr, runVars>>

RdData ==
    /\ rd.pc = "data"
    /\ rd' = [rd EXCEPT !.data = Append(@, Drop(buffer[rd.i], rd.start)),
                        !.i = @ + 1,
                        !.pc = IF rd.i = NCH THEN "ret" ELSE "data"]
    /\ UNCHANGED <<cfg, moreVars, auxVars, lnVars, buffer, times, zi_n, zi_bp, pushed, wr, runVars>>

RdRet ==
    /\ rd.pc = "ret"
    /\ \E raises \in BOOLEAN :
         /\ raises => Ragged(rd.data)
         /\ rd' = [rd EXCEPT
                     !.pc = "done",
                     !.res = WindowResult(rd.start, rd.hi, rd.fs, rd.data, raises)]
    /\ UNCHANGED <<cfg, moreVars, auxVars, lnVars, buffer, times, zi_n, zi_bp, pushed, wr, runVars>>

Consume ==
    /\ rd.pc = "done"
    /\ rd' = [RdIdle EXCEPT !.kind = rd.kind, !.arg = rd.arg,
                            !.out = Outcome(rd.kind, rd.arg, rd.res)]
    /\ UNCHANGED <<cfg, moreVars, auxVars, lnVars, buffer, times, zi_n, zi_bp, pushed, wr, runVars>>

NextConc ==
    \/ \E v \in ConcVectors : PushBegin(v)
    \/ PushStore
    \/ PushTimes
    \/ \E c \in ConcCalls : RdCall(c)
    \/ RdCheck
    \/ RdStart
    \/ RdIdx
    \/ RdData
    \/ RdRet
    \/ Consume

SpecConc == Init /\ [][NextConc]_vars

(***************************************************************************)
(* Lines of the device, as sequences of characters.                        *)
(***************************************************************************)
Prefix == <<"C", "h", "a", "n", "n", "e", "l", ":">>
Digits == {"0", "1", "2", "3", "4", "5", "6", "7", "8", "9"}

RECURSIVE Join(_)
Join(fields) ==
    IF Len(fields) = 1 THEN fields[1]
    ELSE fields[1] \o <<",">> \o Join(Tail(fields))

Rec(fields) == Prefix \o Join(fields)

BsField == <<"\\", "d", "\\", "\\">>        \* the four characters \d\\

DeviceLines ==
    { Rec(<< <<"1">>, <<"2">>, <<"3">>, <<"4">>, <<"5">>, <<"6">>, <<"7">>,
             <<"8">>, <<"9">> >>),
      Rec(<< <<"-", "1", ".", "5">>, <<"2">>, <<"3", ".">>, <<"4">>, <<"0">>,
             <<"6">>, <<"7">>, <<"8">>, <<"-", "9">> >>),
      <<"C", "h", ":">> \o Join(<< <<"1">>, <<"2">>, <<"3">>, <<"4">>, <<"5">>,
             <<"6">>, <<"7">>, <<"8">>, <<"9">> >>),              \* wrong prefix
      Rec(<< <<"1">>, <<"2">>, <<"3">>, <<"4">>, <<"5">>, <<"6">>, <<"7">>,
             <<"8">> >>),                                          \* 8 values
      Rec(<< <<"1">>, <<"2">>, <<"3">>, <<"4">>, <<"5">>, <<"6">>, <<"7">>,
             <<"8">>, <<"9">>, <<"1">> >>),                        \* 10 values
      Rec(<< <<"1">>, <<"2">>, <<"x">>, <<"4">>, <<"5">>, <<"6">>, <<"7">>,
             <<"8">>, <<"9">> >>),                                 \* not a number
      <<>>,                                                        \* empty line
      Rec(<< BsField, BsField, BsField, BsField, BsField, BsField, BsField,
             BsField, BsField >>) }                                \* \d\\ nine times

(***************************************************************************)
(* re.match.  The patterns of the program are concatenations of atoms: a   *)
(* character class taken once, optionally, or any number of times; one or *)
(* more is once followed by any number.  MatchAt backtracks over them as   *)
(* re does, and the closing $ of a pattern asks for the end of the line.   *)
(***************************************************************************)
One(C)     == [q |-> "one",  any |-> FALSE, cls |-> C]
Maybe(C)   == [q |-> "opt",  any |-> FALSE, cls |-> C]
Many(C)    == [q |-> "star", any |-> FALSE, cls |-> C]
MaybeAny   == [q |-> "opt",  any |-> TRUE,  cls |-> {}]   \* .?

RECURSIVE MatchAt(_, _, _, _)
MatchAt(s, i, pat, j) ==
    IF j > Len(pat) THEN i = Len(s) + 1
    ELSE LET a    == pat[j]
             here == i <= Len(s) /\ (a.any \/ s[i] \in a.cls)
         IN  CASE a.q = "one"  -> here /\ MatchAt(s, i + 1, pat, j + 1)
               [] a.q = "opt"  -> \/ here /\ MatchAt(s, i + 1, pat, j + 1)
                                  \/ MatchAt(s, i, pat, j + 1)
               [] a.q = "star" -> \/ here /\ MatchAt(s, i + 1, pat, j)
                                  \/ MatchAt(s, i, pat, j + 1)

\* s[i..] is  (field,){n-1} field $ : n fields, a comma after each but the last
RECURSIVE MatchFields(_, _, _, _)
MatchFields(s, i, field, n) ==
    \E k \in i..(Len(s) + 1) :
        /\ MatchAt(SubSeq(s, i, k - 1), 1, field, 1)
        /\ IF n = 1 THEN k = Len(s) + 1
           ELSE k <= Len(s) /\ s[k] = "," /\ MatchFields(s, k + 1, field, n - 1)

\* ^Channel:
StartsWithPrefix(s) == Len(s) >= Len(Prefix) /\ SubSeq(s, 1, Len(Prefix)) = Prefix

\* the field of the pattern as intended:  -?\d+\.?\d*
FieldIntended == <<Maybe({"-"}), One(Digits), Many(Digits), Maybe({"."}), Many(Digits)>>

\* the field of the pattern in run(): in the raw string r'...' the text
\* -?\\d+\\.?\\d* reads: optional '-', a backslash, one or more 'd', a
\* backslash, any character or none, a backslash, any number of 'd'.
FieldInRun ==
    <<Maybe({"-"}), One({"\\"}), One({"d"}), Many({"d"}), One({"\\"}), MaybeAny,
      One({"\\"}), Many({"d"})>>

\* the record schema: Channel: and 9 comma-separated signed decimals
MatchesIntended(s) ==
    StartsWithPrefix(s) /\ MatchFields(s, Len(Prefix) + 1, FieldIntended, NCH)

\* re.match(r'^Channel:(-?\\d+\\.?\\d*,){8}-?\\d+\\.?\\d*$', raw)
Matches(s) ==
    StartsWithPrefix(s) /\ MatchFields(s, Len(Prefix) + 1, FieldInRun, 8 + 1)

\* str.split(',')
RECURSIVE SplitComma(_, _)
SplitComma(s, cur) ==
    IF s = <<>> THEN <<cur>>
    ELSE IF Head(s) = "," THEN <<cur>> \o SplitComma(Tail(s), <<>>)
    ELSE SplitComma(Tail(s), Append(cur, Head(s)))

\* raw.split('Channel:')[1].split(','), for a raw that starts with Channel:
\* and holds it once (every line the pattern matches does)
FieldsOf(raw) == SplitComma(SubSeq(raw, Len(Prefix) + 1, Len(raw)), <<>>)

\* float(f) succeeds: sign, then digits with at most one point
FloatOk(f) ==
    \/ MatchAt(f, 1, <<Maybe({"-", "+"}), One(Digits), Many(Digits), Maybe({"."}),
                       Many(Digits)>>, 1)
    \/ MatchAt(f, 1, <<Maybe({"-", "+"}), One({"."}), One(Digits), Many(Digits)>>, 1)

DigitVal(c) ==
    CASE c = "0" -> 0 [] c = "1" -> 1 [] c = "2" -> 2 [] c = "3" -> 3 [] c = "4" -> 4
      [] c = "5" -> 5 [] c = "6" -> 6 [] c = "7" -> 7 [] c = "8" -> 8 [] c = "9" -> 9

RECURSIVE IntOf(_, _)
IntOf(ds, acc) ==
    IF ds = <<>> \/ Head(ds) \notin Digits THEN acc
    ELSE IntOf(Tail(ds), 10 * acc + DigitVal(Head(ds)))

RECURSIVE AfterPoint(_)
AfterPoint(f) ==
    IF f = <<>> THEN <<>> ELSE IF Head(f) = "." THEN Tail(f) ELSE AfterPoint(Tail(f))

\* float(f), in tenths (the model's samples are integers; the lines of the
\* model carry at most one decimal)
FloatVal(f) ==
    LET neg  == f # <<>> /\ Head(f) = "-"
        body == IF f # <<>> /\ Head(f) \in {"-", "+"} THEN Tail(f) ELSE f
        frac == AfterPoint(body)
        mag  == 10 * IntOf(body, 0) + (IF frac = <<>> THEN 0 ELSE DigitVal(Head(frac)))
    IN  IF neg THEN 0 - mag ELSE mag

(***************************************************************************)
(* SerialThread.run on the acquisition thread, and stop() on the caller's. *)
(***************************************************************************)
LoopPcs == {"loop", "poll", "read", "parse"}
Finished == {"new", "done", "crashed"}

\* QThread.start(), called on the GUI thread as stop() is
Start ==
    /\ th.pc = "new"
    /\ stp \in {"idle", "returned"}
    /\ th' = [th EXCEPT !.pc = "ready"]
    /\ UNCHANGED <<cfg, moreVars, auxVars, lnVars, storeVars, wr, rd, ok, running, sp, tx, rx, stp, seen>>

\* "if not self.ok: return"
RunEnter ==
    /\ th.pc = "ready"
    /\ th' = [th EXCEPT !.pc = IF ok THEN "setrun" ELSE "done"]
    /\ UNCHANGED <<cfg, moreVars, auxVars, lnVars, storeVars, wr, rd, ok, running, sp, tx, rx, stp, seen>>

\* "self.running = True"
RunSetRunning ==
    /\ th.pc = "setrun"
    /\ running' = TRUE
    /\ th' = [th EXCEPT !.pc = "write"]
    /\ UNCHANGED <<cfg, moreVars, auxVars, lnVars, storeVars, wr, rd, ok, sp, tx, rx, stp, seen>>

\* "self.sp.write(b'1')": raises on a port that was closed meanwhile
RunWrite ==
    /\ th.pc = "write"
    /\ IF sp = "open"
       THEN /\ tx' = Append(tx, "1")
            /\ th' = [th EXCEPT !.pc = "loop"]
       ELSE /\ tx' = tx
            /\ th' = [th EXCEPT !.pc = "crashed", !.err = "PortNotOpen"]
    /\ UNCHANGED <<cfg, moreVars, auxVars, lnVars, storeVars, wr, rd, ok, running, sp, rx, stp, seen>>

\* the loop with the start byte written inside it, on every turn
RunLoopTestHandshakes ==
    /\ th.pc = "loop"
    /\ th' = [th EXCEPT !.pc = IF running THEN "write" ELSE "done"]
    /\ UNCHANGED <<cfg, moreVars, auxVars, lnVars, storeVars, wr, rd, ok, running, sp, tx, rx, stp, seen>>

\* "while self.running"
RunLoopTest ==
    /\ th.pc = "loop"
    /\ th' = [th EXCEPT !.pc = IF running THEN "poll" ELSE "done"]
    /\ UNCHANGED <<cfg, moreVars, auxVars, lnVars, storeVars, wr, rd, ok, running, sp, tx, rx, stp, seen>>

\* "if self.sp.in_waiting"
RunPoll ==
    /\ th.pc = "poll"
    /\ th' = IF sp # "open" THEN [th EXCEPT !.pc = "crashed", !.err = "PortNotOpen"]
             ELSE IF rx # <<>> THEN [th EXCEPT !.pc = "read"]
             ELSE [th EXCEPT !.pc = "loop"]
    /\ UNCHANGED <<cfg, moreVars, auxVars, lnVars, storeVars, wr, rd, ok, running, sp, tx, rx, stp, seen>>

\* "raw = self.sp.readline().decode(errors='ignore').strip()"
RunReadline ==
    /\ th.pc = "read"
    /\ IF sp # "open"
       THEN /\ th' = [th EXCEPT !.pc = "crashed", !.err = "PortNotOpen"]
            /\ rx' = rx
       ELSE /\ th' = [th EXCEPT !.pc = "parse", !.raw = Head(rx)]
            /\ rx' = Tail(rx)
    /\ UNCHANGED <<cfg, moreVars, auxVars, lnVars, storeVars, wr, rd, ok, running, sp, tx, stp, seen>>

\* "self.sp.in_waiting" or "self.sp.readline()" raises on an open port (the
\* device was unplugged, the driver reports an I/O error): run() has no
\* handler, the exception ends the thread and no flag is touched
ReadFails ==
    /\ th.pc \in {"poll", "read"}
    /\ sp = "open"
    /\ th' = [th EXCEPT !.pc = "crashed", !.err = "SerialException"]
    /\ UNCHANGED <<cfg, moreVars, auxVars, lnVars, storeVars, wr, rd, ok, running, sp, tx, rx, stp, seen>>

\* emit, re.match, list(map(float, ...)), self._push(vals)
RunParse ==
    /\ th.pc = "parse"
    /\ seen' = Append(seen, th.raw)
    /\ IF ~Matches(th.raw)
       THEN /\ th' = [th EXCEPT !.pc = "loop", !.raw = <<>>]
            /\ UNCHANGED storeVars
       ELSE LET fs == FieldsOf(th.raw)
            IN  IF \E k \in 1..Len(fs) : ~FloatOk(fs[k])
                THEN /\ th' = [th EXCEPT !.pc = "crashed", !.err = "ValueError"]
                     /\ UNCHANGED storeVars
                ELSE IF Len(fs) # NCH
                THEN /\ th' = [th EXCEPT !.pc = "crashed", !.err = "IndexError"]
                     /\ UNCHANGED storeVars
                ELSE /\ th' = [th EXCEPT !.pc = "loop", !.raw = <<>>]
                     /\ Store([k \in 1..NCH |-> FloatVal(fs[k])])
    /\ UNCHANGED <<cfg, moreVars, auxVars, lnVars, wr, rd, ok, running, sp, tx, rx, stp>>

\* the device streams lines once it got the start byte
DeviceSend(line) ==
    /\ sp = "open"
    /\ tx # <<>>
    /\ Len(seen) + Len(rx) + (IF th.pc = "parse" THEN 1 ELSE 0) < MaxLines
    /\ rx' = Append(rx, line)
    /\ UNCHANGED <<cfg, moreVars, auxVars, lnVars, storeVars, wr, rd, ok, running, sp, th, tx, stp, seen>>

\* stop(): "self.running = False"
StopCall ==
    /\ stp \in {"idle", "returned"}
    /\ running' = FALSE
    /\ stp' = "wait"
    /\ UNCHANGED <<cfg, moreVars, auxVars, lnVars, storeVars, wr, rd, ok, sp, th, tx, rx, seen>>

\* The 1000 ms of wait() pass only while the thread stays inside its loop:
\* it keeps looping (running is True) or sits in readline (port timeout 1 s).
WaitTimesOut == th.pc \in LoopPcs /\ (running \/ th.pc = "read")

\* "self.wait(1000)": returns when the thread has finished, or on the timeout
StopWait ==
    /\ stp = "wait"
    /\ th.pc \in Finished \/ WaitTimesOut
    /\ stp' = "close"
    /\ UNCHANGED <<cfg, moreVars, auxVars, lnVars, storeVars, wr, rd, ok, running, sp, th, tx, rx, seen>>

\* "if self.sp and self.sp.is_open: self.sp.close()"
StopClose ==
    /\ stp = "close"
    /\ sp' = IF sp = "open" THEN "closed" ELSE sp
    /\ rx' = IF sp = "open" THEN <<>> ELSE rx
    /\ stp' = "returned"
    /\ UNCHANGED <<cfg, moreVars, auxVars, lnVars, storeVars, wr, rd, ok, running, th, tx, seen>>

InitRun ==
    /\ cfg \in ConfigFiles
    /\ \E opened \in BOOLEAN : Constructed(opened)
    /\ NoLauncher
    /\ AuxIdle

NextRun ==
    \/ Start
    \/ RunEnter
    \/ RunSetRunning
    \/ RunWrite
    \/ RunLoopTest
    \/ RunPoll
    \/ RunReadline
    \/ RunParse
    \/ ReadFails
    \/ \E l \in DeviceLines : DeviceSend(l)
    \/ StopCall
    \/ StopWait
    \/ StopClose

SpecRun == InitRun /\ [][NextRun]_vars

(***************************************************************************)
(* Launcher (bci_launcher.py): it opens the source, builds the windows     *)
(* around it and reopens it on request.  The run variables describe the    *)
(* SerialThread whose port opened, once there is one.                      *)
(***************************************************************************)
\* what happens when _open_serial looks for the port and opens it
OpenOutcomes == {"nousb", "openfail", "opened"}

DummySrc       == [kind |-> "dummy",  ok |-> TRUE, t |-> 0]     \* DummySerial()
SerialSrc(isok) == [kind |-> "serial", ok |-> isok, t |-> 0]    \* SerialThread(port)

\* the ser of _open_serial without its fallback (what a failed open leaves)
OpenedSourceNoFallback(o) ==
    IF o = "nousb" THEN DummySrc ELSE SerialSrc(o = "opened")

\* the ser that _open_serial assigns to self.serial
OpenedSource(o) ==
    IF o = "nousb" THEN DummySrc
    ELSE IF SerialSrc(o = "opened").ok THEN SerialSrc(TRUE)
    ELSE DummySrc

\* _open_serial: the new source is put on the heap; an opened SerialThread
\* is started
OpenSerial(o) ==
    /\ heap' = Append(heap, OpenedSource(o))
    /\ IF OpenedSource(o).kind = "serial" /\ OpenedSource(o).ok
       THEN /\ ok' = TRUE
            /\ sp' = "open"
            /\ th' = [ThNew EXCEPT !.pc = "ready"]
       ELSE UNCHANGED <<ok, sp, th>>

\* Launcher.__init__: _open_serial(initial=True), then the trainer window
\* (with its plot, recorder and inference widgets), the monitor window (with
\* its three default panels) and the control panel, each given self.serial
LauncherInit(o) ==
    /\ ln.pc = "none"
    /\ OpenSerial(o)
    /\ ln' = [pc |-> "up", serial |-> Len(heap) + 1, first |-> o, last |-> o,
              n |-> 0, exc |-> "none"]
    /\ refs' = [c \in Holders |-> Len(heap) + 1]
    /\ panels' = <<Len(heap) + 1, Len(heap) + 1, Len(heap) + 1>>
    /\ UNCHANGED <<cfg, moreVars, auxVars, storeVars, wr, rd, running, tx, rx, stp, seen, got>>

\* stop() runs on the GUI thread and blocks it in wait(1000): no other
\* handler of the GUI runs until it has returned
GuiIdle == stp \in {"idle", "returned"}

\* "isinstance(self.serial, sb.SerialThread) and self.serial.ok"
AlreadyConnected == heap[ln.serial].kind = "serial" /\ heap[ln.serial].ok

\* Launcher.reconnect_serial.  After _open_serial it calls
\* self.trainer.set_serial, which TrainerWindow does not define: the
\* AttributeError ends the handler before the monitor is given the source.
Reconnect(o) ==
    /\ ln.pc = "up"
    /\ GuiIdle
    /\ ln.n < MaxReconnect
    /\ IF AlreadyConnected
       THEN /\ ln' = [ln EXCEPT !.n = @ + 1, !.exc = "none"]
            /\ UNCHANGED <<heap, ok, sp, th>>
       ELSE /\ OpenSerial(o)
            /\ ln' = [ln EXCEPT !.serial = Len(heap) + 1, !.last = o, !.n = @ + 1,
                                !.exc = "AttributeError"]
    /\ UNCHANGED <<cfg, moreVars, auxVars, storeVars, wr, rd, running, tx, rx, stp, seen, refs, panels,
                   got>>

\* MonitorWindow._add_panel: "if len(self.panels) >= 4: return", else a
\* PlotPanel(self.serial, mode) is docked
AddPanel ==
    /\ ln.pc = "up"
    /\ GuiIdle
    /\ Len(panels) < MaxPanels
    /\ panels' = IF Len(panels) >= 4 THEN panels ELSE Append(panels, refs["monitor"])
    /\ UNCHANGED <<cfg, moreVars, auxVars, storeVars, wr, rd, runVars, heap, ln, refs, got>>

\* the widgets that read windows, and the call each makes
Readers ==
    { [who |-> "plot",     meth |-> "plot", arg |-> NoArg],
      [who |-> "recorder", meth |-> "plot", arg |-> NoArg],
      [who |-> "infer",    meth |-> "plot", arg |-> Arg(1)],
      [who |-> "control",  meth |-> "plot", arg |-> Arg(1)],
      [who |-> "panel",    meth |-> "fft",  arg |-> NoArg] }

\* DummySerial.get_plot_data / get_fft_data: "n = int(length or cfg.get(..))"
DummyLength(meth, arg) ==
    LengthOr(arg, IF meth = "plot" THEN "PLOT_LENGTH" ELSE "FFT_LENGTH")

\* one widget reads a window from the source it holds: a DummySerial makes a
\* chunk of n samples and advances its index, a SerialThread slices its store
ReadFrom(r, src) ==
    /\ ln.pc = "up"
    /\ GuiIdle \/ r.who = "control"     \* InferenceWorker is a thread of its own
    /\ src \in 1..Len(heap)
    /\ IF heap[src].kind = "dummy"
       THEN LET n == DummyLength(r.meth, r.arg)
            IN  /\ heap[src].t + n <= MaxT
                /\ heap' = [heap EXCEPT ![src].t = @ + n]
                /\ got' = [who |-> r.who, kind |-> "dummy", n |-> n]
       ELSE /\ heap' = heap
            /\ got' = [who |-> r.who, kind |-> "serial",
                       n |-> Len(Slice(SliceLength(r.meth, r.arg)).t)]
    /\ UNCHANGED <<cfg, moreVars, auxVars, storeVars, wr, rd, runVars, ln, refs, panels>>

WidgetRead(r) ==
    IF r.who = "panel" THEN \E k \in 1..Len(panels) : ReadFrom(r, panels[k])
    ELSE ReadFrom(r, refs[r.who])

\* TrainerWindow.closeEvent, MonitorWindow.closeEvent:
\* "if isinstance(self.serial, sb.SerialThread): self.serial.stop()"
CloseEvent(w) ==
    /\ ln.pc = "up"
    /\ heap[refs[w]].kind = "serial"
    /\ StopCall

\* the lines the device sends in the launcher's sessions
LauncherLines == {l \in DeviceLines : Len(l) <= Len(Prefix) \/ Matches(l)}

InitLauncher ==
    /\ cfg \in ConfigFiles
    /\ Constructed(FALSE)
    /\ NoLauncher
    /\ AuxIdle

NextLauncher ==
    \/ \E o \in OpenOutcomes : LauncherInit(o)
    \/ \E o \in OpenOutcomes : Reconnect(o)
    \/ AddPanel
    \/ \E r \in Readers : WidgetRead(r)
    \/ RunEnter
    \/ RunSetRunning
    \/ RunWrite
    \/ RunLoopTest
    \/ RunPoll
    \/ RunReadline
    \/ RunParse
    \/ ReadFails
    \/ \E l \in LauncherLines : DeviceSend(l)
    \/ \E w \in {"trainer", "monitor"} : CloseEvent(w)
    \/ StopWait
    \/ StopClose

SpecLauncher == InitLauncher /\ [][NextLauncher]_vars

(***************************************************************************)
(* SerialThread.__init__, step by step, over configurations whose filter   *)
(* settings may be invalid.  Frequencies are kept as integers: f / nyq     *)
(* with nyq = 0.5 * fs is compared with 0 and 1 as 2 * f with 0 and fs.    *)
(***************************************************************************)
FilterConfigFiles ==
    [DATA_LENGTH : {2}, PLOT_LENGTH : {2}, FFT_LENGTH : {3}, SAMPLE_RATE : {0, 8},
     NOTCH_FREQ : {2, 5}, BANDPASS_LO : {0, 1, 3}, BANDPASS_HI : {1, 3, 4}]

\* iirnotch: "if w0 > 1.0 or w0 < 0.0: raise ValueError"
NotchRejected == 2 * CfgGet("NOTCH_FREQ") > CfgGet("SAMPLE_RATE") \/ CfgGet("NOTCH_FREQ") < 0

\* butter: "if any(Wn <= 0) or any(Wn >= 1): raise ValueError"
BandOutOfRange ==
    \E f \in {CfgGet("BANDPASS_LO"), CfgGet("BANDPASS_HI")} :
        f <= 0 \/ 2 * f >= CfgGet("SAMPLE_RATE")

\* lo >= hi: scipy raises "Wn[0] must be less than Wn[1]" in the releases that
\* check it and designs a filter from the pair in the others
BandReversed == CfgGet("BANDPASS_LO") >= CfgGet("BANDPASS_HI")

\* the try/except around serial.Serial(...): sp and ok are set either way;
\* then buffer and times
NewOpen(opens) ==
    /\ ctor.pc = "none"
    /\ ok' = opens
    /\ sp' = IF opens THEN "open" ELSE "none"
    /\ ctor' = [ctor EXCEPT !.pc = "notch"]
    /\ UNCHANGED <<cfg, moreVars, dm, calc, rec, lnVars, storeVars, wr, rd, running, th, tx, rx, stp, seen>>

\* fs, nyq, "f0 = cfg.get("NOTCH_FREQ") / nyq", iirnotch, zi_n
NewNotch ==
    /\ ctor.pc = "notch"
    /\ ctor' = IF CfgGet("SAMPLE_RATE") = 0
               THEN [ctor EXCEPT !.pc = "raised", !.exc = "ZeroDivisionError"]
               ELSE IF NotchRejected
               THEN [ctor EXCEPT !.pc = "raised", !.exc = "ValueError",
                                 !.fs = CfgGet("SAMPLE_RATE")]
               ELSE [ctor EXCEPT !.pc = "band", !.fs = CfgGet("SAMPLE_RATE")]
    /\ UNCHANGED <<cfg, moreVars, dm, calc, rec, lnVars, storeVars, wr, rd, runVars>>

\* lo, hi, butter, zi_bp
NewBand(checksOrder) ==
    /\ ctor.pc = "band"
    /\ ctor' = IF BandOutOfRange \/ (BandReversed /\ checksOrder)
               THEN [ctor EXCEPT !.pc = "raised", !.exc = "ValueError"]
               ELSE [ctor EXCEPT !.pc = "built"]
    /\ UNCHANGED <<cfg, moreVars, dm, calc, rec, lnVars, storeVars, wr, rd, runVars>>

\* Nothing in __init__ closes the port when a later statement raises.  The
\* object is unreachable then; when the interpreter collects it, the Serial
\* object's finalizer closes the port.
Collect ==
    /\ ctor.pc = "raised"
    /\ sp = "open"
    /\ sp' = "closed"
    /\ ok' = FALSE
    /\ ctor' = [ctor EXCEPT !.pc = "collected"]
    /\ UNCHANGED <<cfg, moreVars, dm, calc, rec, lnVars, storeVars, wr, rd, running, th, tx, rx, stp, seen>>

\* the caller starts the thread of the object it got
StartBuilt ==
    /\ ctor.pc = "built"
    /\ ok
    /\ Start

InitNew ==
    /\ cfg \in FilterConfigFiles
    /\ Constructed(FALSE)
    /\ NoLauncher
    /\ ctor = CtorNone
    /\ dm = DmIdle
    /\ calc = CalcNone
    /\ rec = RecIdle
    /\ MoreIdle

NextNew ==
    \/ \E opens \in BOOLEAN : NewOpen(opens)
    \/ NewNotch
    \/ \E checksOrder \in BOOLEAN : NewBand(checksOrder)
    \/ Collect
    \/ StartBuilt

SpecNew == InitNew /\ [][NextNew]_vars

(***************************************************************************)
(* DummySerial._make_chunk, statement by statement, called from the GUI    *)
(* thread and from InferenceWorker.run on one DummySerial.  The            *)
(* interpreter may switch threads between any two reads or writes of       *)
(* self.t.                                                                 *)
(***************************************************************************)
ChunkLengths == {1, 2}

DmFrame == UNCHANGED <<cfg, moreVars, ctor, calc, rec, lnVars, storeVars, wr, rd, runVars>>

\* get_plot_data(length=n) enters _make_chunk(n)
ChunkCall(c, n) ==
    /\ dm.call[c].pc = "idle"
    /\ Len(dm.log) + Cardinality({d \in Callers : dm.call[d].pc # "idle"}) < MaxChunks
    /\ dm' = [dm EXCEPT !.call[c] = [CallIdle EXCEPT !.pc = "lo", !.n = n]]
    /\ DmFrame

\* "np.arange(self.t, ...": the first read of self.t
ChunkLo(c) ==
    /\ dm.call[c].pc = "lo"
    /\ dm' = [dm EXCEPT !.call[c].lo = dm.t, !.call[c].pc = "hi"]
    /\ DmFrame

\* "... self.t + n)": the second read of self.t
ChunkHi(c) ==
    /\ dm.call[c].pc = "hi"
    /\ dm' = [dm EXCEPT !.call[c].hi = dm.t + dm.call[c].n, !.call[c].pc = "load"]
    /\ DmFrame

\* "self.t += n": the read
ChunkLoad(c) ==
    /\ dm.call[c].pc = "load"
    /\ dm' = [dm EXCEPT !.call[c].tmp = dm.t, !.call[c].pc = "store"]
    /\ DmFrame

\* "self.t += n": the write; the chunk for idx = lo..hi-1 is returned
ChunkStore(c) ==
    /\ dm.call[c].pc = "store"
    /\ dm' = [dm EXCEPT !.t = dm.call[c].tmp + dm.call[c].n,
                        !.call[c] = CallIdle,
                        !.log = Append(@, [by |-> c, n |-> dm.call[c].n,
                                           lo |-> dm.call[c].lo, hi |-> dm.call[c].hi])]
    /\ DmFrame

InitDummy ==
    /\ cfg \in ConfigFiles
    /\ Constructed(FALSE)
    /\ NoLauncher
    /\ AuxIdle

NextDummy ==
    \E c \in Callers :
        \/ \E n \in ChunkLengths : ChunkCall(c, n)
        \/ ChunkLo(c)
        \/ ChunkHi(c)
        \/ ChunkLoad(c)
        \/ ChunkStore(c)

SpecDummy == InitDummy /\ [][NextDummy]_vars

(***************************************************************************)
(* The plot panels' spectrum and band-power ticks (main_monitor.py and     *)
(* panels/plot_panel.py).  Frequencies are kept as fractions: bin k of an  *)
(* n-point transform lies at k * fs / n, and is compared with a bound f as *)
(* k * fs with f * n.  Magnitudes are kept as twice their square, which is *)
(* an integer for the transform lengths of the model (1 to 4 points).      *)
(***************************************************************************)
PanelConfigFiles ==
    [DATA_LENGTH : {2}, PLOT_LENGTH : {2}, FFT_LENGTH : {2, 4}, SAMPLE_RATE : {4, 8},
     NOTCH_FREQ : {2}, BANDPASS_LO : {1}, BANDPASS_HI : {3},
     FFT_FREQ_MIN : {0, 1, 3}, FFT_FREQ_MAX : {1, 2}]

\* the channels ticked in a panel (self.chks), as indices from 0
ActiveSets == {{}, {0}, {1, 8}}

\* 2 * cos(2 * pi * j / n)
Cos2(n, j) ==
    CASE n = 1 -> 2
      [] n = 2 -> IF j % 2 = 0 THEN 2 ELSE 0 - 2
      [] n = 3 -> IF j % 3 = 0 THEN 2 ELSE 0 - 1
      [] n = 4 -> IF j % 4 = 0 THEN 2 ELSE IF j % 4 = 2 THEN 0 - 2 ELSE 0

\* np.fft.rfft(x, n): x is cropped or zero-padded to n points
Padded(x, n) == [m \in 1..n |-> IF m <= Len(x) THEN x[m] ELSE 0]

\* 2 * |X[k]|^2 for the transform of x
Mag2(x, k) ==
    SumSeq([m \in 1..Len(x) |->
        SumSeq([j \in 1..Len(x) |-> x[m] * x[j] * Cos2(Len(x), k * (m - j))])])

\* np.abs(np.fft.rfft(x)): bins 0 .. n // 2
Rfft(x) == [k \in 1..((Len(x) \div 2) + 1) |-> Mag2(x, k - 1)]

\* np.fft.rfftfreq(n, d=1/fs): bin k lies at k * fs / n
RfftFreq(n, fs) == [k \in 1..((n \div 2) + 1) |-> [num |-> (k - 1) * fs, den |-> n]]

\* (freqs >= lo) & (freqs <= hi)
Mask(freqs, lo, hi) ==
    {k \in 1..Len(freqs) : /\ freqs[k].num >= lo * freqs[k].den
                           /\ freqs[k].num <= hi * freqs[k].den}

\* a[mask]
RECURSIVE Masked(_, _)
Masked(a, mask) ==
    IF a = <<>> THEN <<>>
    ELSE Masked(SubSeq(a, 1, Len(a) - 1), mask)
           \o (IF Len(a) \in mask THEN <<a[Len(a)]>> ELSE <<>>)

\* the range as it is used without "if fmin > fmax: fmin, fmax = fmax, fmin"
Unordered(fmin, fmax) == <<fmin, fmax>>

\* "if fmin > fmax: fmin, fmax = fmax, fmin"
Ordered(fmin, fmax) == IF fmin > fmax THEN <<fmax, fmin>> ELSE <<fmin, fmax>>

\* d.size
SizeOf(res) == Product(res.shape)

\* a tick of the panel kind on the window res with the channels act ticked
\* (act, win and xin, the arrays handed to rfft, are kept for reference),
\* nothing drawn yet
CalcOf(kind, act, res) == [CalcNone EXCEPT !.kind = kind, !.act = act, !.win = res]

\* main_monitor.PlotPanel._spectrum on the window res
MonitorSpectrumOf(res, act, nfft, fs, fmin, fmax) ==
    IF SizeOf(res) = 0 THEN [CalcOf("mon_spectrum", act, res) EXCEPT !.out = "skip"]
    ELSE LET freqs == RfftFreq(nfft, fs)
             r     == Ordered(fmin, fmax)
             mask  == Mask(freqs, r[1], r[2])
         IN  [CalcOf("mon_spectrum", act, res) EXCEPT
                !.out = "drawn",
                !.freqs = Masked(freqs, mask),
                !.xin = [i \in 1..NCH |->
                           IF (i - 1) \in act THEN Padded(res.data[i], nfft) ELSE <<>>],
                !.curves = [i \in 1..NCH |->
                              IF (i - 1) \in act
                              THEN Masked(Rfft(Padded(res.data[i], nfft)), mask)
                              ELSE <<>>]]

\* plot_panel.PlotPanel._spectrum: the range is 3 .. 50 Hz
TrainerSpectrumOf(res, act, fs) ==
    IF SizeOf(res) = 0 THEN [CalcOf("tr_spectrum", act, res) EXCEPT !.out = "skip"]
    ELSE LET freqs == RfftFreq(Len(res.data[1]), fs)
             mask  == Mask(freqs, 3, 50)
         IN  [CalcOf("tr_spectrum", act, res) EXCEPT
                !.out = "drawn",
                !.freqs = IF act = {} THEN <<>> ELSE Masked(freqs, mask),
                !.xin = [i \in 1..NCH |-> IF (i - 1) \in act THEN res.data[i] ELSE <<>>],
                !.curves = [i \in 1..NCH |->
                              IF (i - 1) \in act THEN Masked(Rfft(res.data[i]), mask)
                              ELSE <<>>]]

\* the six bands of _bandpower / _band in half Hz: (0.5, 4), (4, 8), (8, 12),
\* (12, 18), (18, 30), (30, 45)
Bands2 == <<<<1, 8>>, <<8, 16>>, <<16, 24>>, <<24, 36>>, <<36, 60>>, <<60, 90>>>>

RECURSIVE SumOver(_, _, _)
SumOver(rows, act, m) ==
    IF act = {} THEN 0
    ELSE LET i == CHOOSE i \in act : TRUE
         IN  rows[i + 1][m] + SumOver(rows, act \ {i}, m)

\* d[act, :].sum(axis=0)
Combined(res, act) == [m \in 1..Len(res.data[1]) |-> SumOver(res.data, act, m)]

\* compute_bandpower(signal, fs, band): welch with nperseg = min(256, len) has
\* nperseg // 2 + 1 bins; "freqs[1] - freqs[0]" needs two of them.  The
\* result is kept as the bins the band selects.
ComputeBandpower(signal, fs, band2) ==
    LET nperseg == Min(256, Len(signal))
        freqs   == RfftFreq(nperseg, fs)
    IN  IF Len(freqs) < 2 THEN [exc |-> "IndexError", bins |-> {}]
        ELSE [exc  |-> "none",
              bins |-> {k \in 1..Len(freqs) :
                           /\ 2 * freqs[k].num >= band2[1] * freqs[k].den
                           /\ 2 * freqs[k].num <= band2[2] * freqs[k].den}]

\* the "if not act" test of _bandpower / _band taken away
NoActiveNever(act) == FALSE

\* "if not act"
NoActive(act) == act = {}

\* _bandpower (main_monitor) and _band (plot_panel) on the window res
BandpowerOf(kind, res, act, fs) ==
    IF SizeOf(res) = 0 THEN [CalcOf(kind, act, res) EXCEPT !.out = "skip"]
    ELSE IF NoActive(act)
    THEN [CalcOf(kind, act, res) EXCEPT !.out = "No channels selected"]
    ELSE LET comb == Combined(res, act)
             pws  == [b \in 1..Len(Bands2) |-> ComputeBandpower(comb, fs, Bands2[b])]
         IN  [CalcOf(kind, act, res) EXCEPT
                !.out = IF \E b \in 1..Len(pws) : pws[b].exc # "none"
                        THEN "raise" ELSE "drawn",
                !.curves = <<comb>>,
                !.bins = [b \in 1..Len(pws) |-> pws[b].bins]]

\* one tick of a panel, with the channels act ticked
MonitorSpectrum(act) ==
    /\ wr.pc = "idle"
    /\ calc' = MonitorSpectrumOf(
                  Slice(SliceLength("fft", Arg(CfgGet("FFT_LENGTH")))), act,
                  CfgGet("FFT_LENGTH"), CfgGet("SAMPLE_RATE"),
                  CfgGet("FFT_FREQ_MIN"), CfgGet("FFT_FREQ_MAX"))
    /\ UNCHANGED <<cfg, moreVars, ctor, dm, rec, lnVars, storeVars, wr, rd, runVars>>

TrainerSpectrum(act) ==
    /\ wr.pc = "idle"
    /\ calc' = TrainerSpectrumOf(Slice(SliceLength("fft", NoArg)), act,
                                 CfgGet("SAMPLE_RATE"))
    /\ UNCHANGED <<cfg, moreVars, ctor, dm, rec, lnVars, storeVars, wr, rd, runVars>>

MonitorBandpower(act) ==
    /\ wr.pc = "idle"
    /\ calc' = BandpowerOf("mon_band",
                           Slice(SliceLength("plot", Arg(CfgGet("FFT_LENGTH")))), act,
                           CfgGet("SAMPLE_RATE"))
    /\ UNCHANGED <<cfg, moreVars, ctor, dm, rec, lnVars, storeVars, wr, rd, runVars>>

TrainerBand(act) ==
    /\ wr.pc = "idle"
    /\ calc' = BandpowerOf("tr_band", Slice(SliceLength("plot", Arg(1024))), act,
                           CfgGet("SAMPLE_RATE"))
    /\ UNCHANGED <<cfg, moreVars, ctor, dm, rec, lnVars, storeVars, wr, rd, runVars>>

InitPanel ==
    /\ cfg \in PanelConfigFiles
    /\ Constructed(TRUE)
    /\ NoLauncher
    /\ AuxIdle

NextPanel ==
    \/ \E v \in SampleVectors : Push(v)
    \/ \E act \in ActiveSets :
          \/ MonitorSpectrum(act)
          \/ TrainerSpectrum(act)
          \/ MonitorBandpower(act)
          \/ TrainerBand(act)

SpecPanel == InitPanel /\ [][NextPanel]_vars

(***************************************************************************)
(* A session whose global configuration is reloaded while it runs: the     *)
(* preferences dialogs call cfg.reload(new) (main_monitor._save_prefs,     *)
(* main_trainer ConfigDialog.accept), which replaces the module's _cfg.    *)
(* The SerialThread and its filters are not rebuilt.                       *)
(***************************************************************************)
ReloadConfigFiles ==
    [DATA_LENGTH : {2}, PLOT_LENGTH : {2}, FFT_LENGTH : {3}, SAMPLE_RATE : {4, 8},
     NOTCH_FREQ : {2}, BANDPASS_LO : {1}, BANDPASS_HI : {3}]

\* reload(cfg_dict): "_cfg = {**DEFAULTS, **cfg_dict}"
Reload(cfg_dict) ==
    /\ wr.pc = "idle"
    /\ rd.pc = "idle"
    /\ cfg' = cfg_dict
    /\ UNCHANGED <<auxVars, moreVars, lnVars, storeVars, wr, rd, runVars>>

InitReload ==
    /\ cfg \in ReloadConfigFiles
    /\ Constructed(TRUE)
    /\ NoLauncher
    /\ AuxIdle

NextReload ==
    \/ \E v \in SampleVectors : Push(v)
    \/ \E c \in ConsumerCalls : Tick(c)
    \/ \E cfg_dict \in ReloadConfigFiles : Reload(cfg_dict)

SpecReload == InitReload /\ [][NextReload]_vars

(***************************************************************************)
(* The recording sequence of EEGRecorderWidget: the requested repetitions  *)
(* are recorded one after the other by a FullScreenRecorder each, then     *)
(* finish_sequence asks for a file name and saves.                         *)
(***************************************************************************)
MaxReps == 3

\* the keys of config_manager.DEFAULTS
DefaultKeys ==
    {"DATA_LENGTH", "PLOT_LENGTH", "FFT_LENGTH", "FFT_FREQ_MIN", "FFT_FREQ_MAX",
     "UPDATE_INTERVAL", "SAMPLE_RATE", "NOTCH_FREQ", "QUALITY_FACTOR", "BANDPASS_LO",
     "BANDPASS_HI", "BUTTER_ORDER", "RECORD_LENGTH"}

\* get(key): "return _cfg.get(key, DEFAULTS[key])".  The default argument is
\* evaluated before _cfg is looked at, so a key DEFAULTS lacks raises
\* KeyError whether the loaded configuration holds it or not.
Get(key) ==
    IF key \notin DefaultKeys THEN [exc |-> "KeyError", val |-> 0]
    ELSE [exc |-> "none", val |-> cfg[key]]

\* configuration files with and without the two cut-off keys the recorder
\* asks for
RecorderConfigFiles ==
    [DATA_LENGTH : {2}, PLOT_LENGTH : {2}, FFT_LENGTH : {3}, SAMPLE_RATE : {8},
     NOTCH_FREQ : {2}, BANDPASS_LO : {1}, BANDPASS_HI : {3}]
    \cup
    [DATA_LENGTH : {2}, PLOT_LENGTH : {2}, FFT_LENGTH : {3}, SAMPLE_RATE : {8},
     NOTCH_FREQ : {2}, BANDPASS_LO : {1}, BANDPASS_HI : {3},
     FILTER_CUTOFF : {1, 3}, BUTTER_CUTOFF : {3}]

\* self.class_info of the class chosen in the combo box
ClassInfos == {[name |-> "left", duration |-> 1], [name |-> "rest", duration |-> 2]}

\* what a FullScreenRecorder emits: zeros when nothing was collected, else
\* the collected windows resampled to duration * 500 samples; 8 rows each
Recorded(info) ==
    {[rows |-> 8, samples |-> info.duration * 500, from |-> f] : f \in {"zeros", "serial"}}

\* np.savez(filename, class_name=..., duration=..., recordings=...,
\*          notch_freq=cfg.get(...), filter_cutoff=cfg.get(...),
\*          butter_cutoff=cfg.get(...)): the arguments are evaluated first,
\* the file is written only when none of them raises
Savez(filename, info, recordings) ==
    LET notch  == Get("NOTCH_FREQ")
        filter == Get("FILTER_CUTOFF")
        butter == Get("BUTTER_CUTOFF")
    IN  IF \E a \in {notch, filter, butter} : a.exc # "none"
        THEN [exc |-> "KeyError", file |-> <<>>]
        ELSE [exc  |-> "none",
              file |-> [name |-> filename, class_name |-> info.name,
                        duration |-> info.duration, recordings |-> recordings,
                        notch_freq |-> notch.val, filter_cutoff |-> filter.val,
                        butter_cutoff |-> butter.val]]

\* finish_sequence with the answer of the file dialog ("" when cancelled)
FinishSequence(filename) ==
    IF filename # ""
    THEN LET w == Savez(filename, rec.info, rec.recordings)
         IN  [rec EXCEPT !.pc = IF w.exc = "none" THEN "saved" ELSE "raised",
                         !.exc = w.exc, !.file = w.file, !.asked = filename]
    ELSE [rec EXCEPT !.pc = "cancelled", !.asked = filename]

\* start_recording_sequence for a positive number of repetitions (any other
\* input returns after a warning), with its call of start_next_recording
StartRecordingSequence(info, repetitions) ==
    /\ rec.pc = "idle"
    /\ repetitions > 0
    /\ rec' = [rec EXCEPT !.pc = "recording", !.info = info, !.recordings = <<>>,
                          !.total = repetitions, !.current = 1]
    /\ UNCHANGED <<cfg, moreVars, ctor, dm, calc, lnVars, storeVars, wr, rd, runVars>>

\* handle_recording_finished: append, then singleShot(500, start_next_recording)
HandleRecordingFinished(recorded_data) ==
    /\ rec.pc = "recording"
    /\ rec' = [rec EXCEPT !.pc = "next", !.recordings = Append(@, recorded_data)]
    /\ UNCHANGED <<cfg, moreVars, ctor, dm, calc, lnVars, storeVars, wr, rd, runVars>>

\* start_next_recording when the timer fires: the next repetition, or
\* finish_sequence (filename is what the dialog returns then)
StartNextRecording(filename) ==
    /\ rec.pc = "next"
    /\ rec' = IF rec.current < rec.total
              THEN [rec EXCEPT !.pc = "recording", !.current = @ + 1]
              ELSE FinishSequence(filename)
    /\ UNCHANGED <<cfg, moreVars, ctor, dm, calc, lnVars, storeVars, wr, rd, runVars>>

InitRecorder ==
    /\ cfg \in RecorderConfigFiles
    /\ Constructed(TRUE)
    /\ NoLauncher
    /\ AuxIdle

NextRecorder ==
    \/ \E info \in ClassInfos, repetitions \in 1..MaxReps :
          StartRecordingSequence(info, repetitions)
    \/ \E recorded_data \in Recorded(rec.info) : HandleRecordingFinished(recorded_data)
    \/ \E filename \in {"", "rec.npz"} : StartNextRecording(filename)

SpecRecorder == InitRecorder /\ [][NextRecorder]_vars

(***************************************************************************)
(* Two sessions, one after the other: a SerialThread is fed some vectors,  *)
(* then a second one is constructed (as the launcher does on reconnect)    *)
(* and fed in its turn.  What the first one held is kept beside it, so     *)
(* that the two runs can be compared channel by channel.                   *)
(***************************************************************************)
\* vectors that agree on some channels and differ on the others
TwinVectors ==
    { <<1, 2, 3, 4, 5, 6, 7, 8, 9>>,
      <<1, 0, 3, 1, 0, 3, -2, 1, 9>>,
      <<2, 0, -1, 1, 0, 3, -2, 1, 0>> }

\* SerialThread.__init__ once more: fresh buffer, times and filter states
SecondSession ==
    /\ ~twin.on
    /\ wr.pc = "idle"
    /\ twin' = [on |-> TRUE, buffer |-> buffer, zi_n |-> zi_n, zi_bp |-> zi_bp,
                pushed |-> pushed]
    /\ buffer' = [i \in 1..NCH |-> <<>>]
    /\ times' = <<>>
    /\ zi_n'  = [i \in 1..NCH |-> LfilterZi(b_notch, a_notch)]
    /\ zi_bp' = [i \in 1..NCH |-> LfilterZi(b_band, a_band)]
    /\ pushed' = <<>>
    /\ UNCHANGED <<cfg, auxVars, fsr, cp, cm, lnVars, wr, rd, runVars>>

InitTwin ==
    /\ cfg \in ConfigFiles
    /\ Constructed(TRUE)
    /\ NoLauncher
    /\ AuxIdle

NextTwin ==
    \/ \E v \in TwinVectors : Push(v)
    \/ SecondSession

SpecTwin == InitTwin /\ [][NextTwin]_vars

(***************************************************************************)
(* One FullScreenRecorder beside a running SerialThread: its phase timer,  *)
(* the single shot that ends the recording phase, and the 100 ms sample    *)
(* timer that collects windows during it.                                  *)
(***************************************************************************)
MaxPolls == 2

\* len(self.phase_times)
NPhases == 5

\* __init__ (showFullScreen) and showEvent: singleShot(100, start_sequence)
FsrShow ==
    /\ fsr.pc = "none"
    /\ fsr' = [fsr EXCEPT !.pc = "shown"]
    /\ UNCHANGED <<cfg, twin, cp, cm, auxVars, lnVars, storeVars, wr, rd, runVars>>

\* start_sequence: phase 0, timer.start(phase_times[0])
FsrStartSequence ==
    /\ fsr.pc = "shown"
    /\ fsr' = [fsr EXCEPT !.pc = "run", !.phase = 0, !.timer = 1]
    /\ UNCHANGED <<cfg, twin, cp, cm, auxVars, lnVars, storeVars, wr, rd, runVars>>

\* next_phase, on self.timer's timeout
FsrNextPhase ==
    /\ fsr.pc = "run"
    /\ fsr.timer # 0
    /\ LET elapsed == Append(fsr.log, [phase |-> fsr.phase, period |-> fsr.timer - 1])
           phase   == fsr.phase + 1
       IN  fsr' = IF phase < NPhases
                  THEN IF phase = 3
                       \* start_recording, singleShot(phase_times[3], stop_and_continue)
                       THEN [fsr EXCEPT !.log = elapsed, !.phase = phase, !.timer = 0,
                                        !.data = <<>>, !.is_recording = TRUE,
                                        !.sampling = TRUE, !.shot = TRUE,
                                        !.since = Len(times)]
                       ELSE [fsr EXCEPT !.log = elapsed, !.phase = phase,
                                        !.timer = phase + 1]
                  \* self.close()
                  ELSE [fsr EXCEPT !.log = elapsed, !.phase = phase, !.timer = 0,
                                   !.pc = "closed"]
    /\ UNCHANGED <<cfg, twin, cp, cm, auxVars, lnVars, storeVars, wr, rd, runVars>>

\* collect_sample, on sample_timer's timeout: get_plot_data(), kept when its
\* size is positive
FsrCollectSample ==
    /\ fsr.sampling
    /\ fsr.polls < MaxPolls
    /\ wr.pc = "idle"
    /\ LET res == Slice(SliceLength("plot", NoArg))
       IN  fsr' = IF fsr.is_recording /\ ~res.raised /\ Product(res.shape) > 0
                  THEN [fsr EXCEPT !.data = Append(@, res.t), !.polls = @ + 1]
                  ELSE [fsr EXCEPT !.polls = @ + 1]
    /\ UNCHANGED <<cfg, twin, cp, cm, auxVars, lnVars, storeVars, wr, rd, runVars>>

\* stop_and_continue, when the single shot fires: stop_recording, emit,
\* timer.start(phase_times[4]); current_phase is left as it is
FsrStopAndContinue ==
    /\ fsr.pc = "run"
    /\ fsr.shot
    /\ fsr' = [fsr EXCEPT !.shot = FALSE, !.is_recording = FALSE, !.sampling = FALSE,
                          !.log = Append(@, [phase |-> fsr.phase, period |-> 3]),
                          !.emitted = Append(@, fsr.phase),
                          !.timer = 4 + 1]
    /\ UNCHANGED <<cfg, twin, cp, cm, auxVars, lnVars, storeVars, wr, rd, runVars>>

InitFsr ==
    /\ cfg \in ConfigFiles
    /\ Constructed(TRUE)
    /\ NoLauncher
    /\ AuxIdle

NextFsr ==
    \/ \E v \in SampleVectors : Push(v)
    \/ FsrShow
    \/ FsrStartSequence
    \/ FsrNextPhase
    \/ FsrCollectSample
    \/ FsrStopAndContinue

SpecFsr == InitFsr /\ [][NextFsr]_vars

(***************************************************************************)
(* The recording sequence with its events in any order: the Start button   *)
(* (enabled throughout), each recorder's recording_finished and close, and *)
(* the 500 ms single shots that call start_next_recording.                 *)
(***************************************************************************)
MaxStarts == 2

\* the class chosen in the combo box and the repetitions typed, for these
\* sequences
SeqClassInfos == {[name |-> "left", duration |-> 1]}
SeqRepetitions == {1, 2}

\* "self.recorder = FullScreenRecorder(...)": a new window; the one
\* self.recorder named before loses its last Python reference, and is
\* deleted with its timers at once or lives on until collected (keeps)
NewRecorder(r, keeps) ==
    LET id   == r.made + 1
        kept == IF keeps THEN r.live ELSE {w \in r.live : w.id # r.recorder}
    IN  [r EXCEPT !.made = id, !.recorder = id,
                  !.outlived = @ \/ (keeps /\ \E w \in r.live : w.id = r.recorder),
                  !.live = kept \cup {[id |-> id, gen |-> r.gen, emitted |-> FALSE]}]

\* start_next_recording
StartNext(r, filename, keeps) ==
    IF r.current < r.total
    THEN NewRecorder([r EXCEPT !.pc = "recording", !.current = @ + 1], keeps)
    ELSE LET f == [FinishSequence(filename) EXCEPT !.timers = r.timers]
         IN  [f EXCEPT !.fin = <<[held |-> r.recordings, total |-> r.total,
                                  gen |-> r.gen]>>]

\* start_recording_sequence from the Start button, whatever is going on
SeqStart(info, repetitions, keeps) ==
    /\ rec.gen < MaxStarts
    /\ repetitions > 0
    /\ rec' = StartNext([rec EXCEPT !.info = info, !.recordings = <<>>, !.current = 0,
                                    !.total = repetitions, !.gen = @ + 1],
                        "", keeps)
    /\ UNCHANGED <<cfg, twin, fsr, cp, cm, ctor, dm, calc, lnVars, storeVars, wr, rd, runVars>>

\* a recorder ends its phase 3: recording_finished reaches
\* handle_recording_finished, which appends and arms the single shot
SeqRecordingFinished(w) ==
    /\ w \in rec.live
    /\ ~w.emitted
    /\ rec' = [rec EXCEPT
                 !.live = (@ \ {w}) \cup {[w EXCEPT !.emitted = TRUE]},
                 !.recordings = Append(@, [rows |-> 8, samples |-> rec.info.duration * 500,
                                           from |-> "serial", gen |-> w.gen]),
                 !.timers = @ + 1,
                 !.pc = "next"]
    /\ UNCHANGED <<cfg, twin, fsr, cp, cm, ctor, dm, calc, lnVars, storeVars, wr, rd, runVars>>

\* a recorder's last phase ends: self.close()
SeqRecorderCloses(w) ==
    /\ w \in rec.live
    /\ w.emitted
    /\ rec' = [rec EXCEPT !.live = @ \ {w}]
    /\ UNCHANGED <<cfg, twin, fsr, cp, cm, ctor, dm, calc, lnVars, storeVars, wr, rd, runVars>>

\* a single shot fires: start_next_recording, or finish_sequence from it
SeqTimerFires(filename, keeps) ==
    /\ rec.timers > 0
    /\ rec' = StartNext([rec EXCEPT !.timers = @ - 1], filename, keeps)
    /\ UNCHANGED <<cfg, twin, fsr, cp, cm, ctor, dm, calc, lnVars, storeVars, wr, rd, runVars>>

InitSequence ==
    /\ cfg \in ConfigFiles
    /\ Constructed(TRUE)
    /\ NoLauncher
    /\ AuxIdle

NextSequence ==
    \/ \E info \in SeqClassInfos, repetitions \in SeqRepetitions, keeps \in BOOLEAN :
          SeqStart(info, repetitions, keeps)
    \/ \E w \in rec.live : SeqRecordingFinished(w)
    \/ \E w \in rec.live : SeqRecorderCloses(w)
    \/ \E filename \in {"", "rec.npz"}, keeps \in BOOLEAN : SeqTimerFires(filename, keeps)

SpecSequence == InitSequence /\ [][NextSequence]_vars

(***************************************************************************)
(* ControlPanelWidget: the three Enable boxes, the START/STOP button,      *)
(* "return to menu", and workers whose run() ends by itself.               *)
(***************************************************************************)
Workers == {"inf", "cam", "utp"}

\* "if self.inf_worker or self.cam_worker or self.utp_worker"
AnyWorkerHeld(c) == \E w \in Workers : c[w] # "none"

AnyWorkerRunning(c) == \E w \in Workers : c[w] = "running"

\* _on_toggle: stop and wait for the workers held and forget them, or else
\* start a worker for each box ticked; the button text follows the branch
OnToggle(c) ==
    IF AnyWorkerHeld(c)
    THEN [c EXCEPT !.inf = "none", !.cam = "none", !.utp = "none", !.btn = "START ALL"]
    ELSE [c EXCEPT !.inf = IF "inf" \in c.checked THEN "running" ELSE "none",
                   !.cam = IF "cam" \in c.checked THEN "running" ELSE "none",
                   !.utp = IF "utp" \in c.checked THEN "running" ELSE "none",
                   !.btn = "STOP ALL"]

\* the user ticks or unticks cb_inf, cb_cam or cb_utp
CpCheck(w) ==
    /\ cp.page = "panel"
    /\ cp' = [cp EXCEPT !.checked = IF w \in @ THEN @ \ {w} ELSE @ \cup {w},
                        !.last = "check"]
    /\ UNCHANGED <<cfg, twin, fsr, cm, auxVars, lnVars, storeVars, wr, rd, runVars>>

\* btn_run clicked
CpToggle ==
    /\ cp.page = "panel"
    /\ cp' = [OnToggle(cp) EXCEPT !.last = "toggle"]
    /\ UNCHANGED <<cfg, twin, fsr, cm, auxVars, lnVars, storeVars, wr, rd, runVars>>

\* _on_return: "self._on_toggle()", then the launcher's stack shows the menu
CpReturn ==
    /\ cp.page = "panel"
    /\ cp' = [OnToggle(cp) EXCEPT !.page = "menu", !.last = "return"]
    /\ UNCHANGED <<cfg, twin, fsr, cm, auxVars, lnVars, storeVars, wr, rd, runVars>>

\* the menu's button shows the control panel again
CpOpen ==
    /\ cp.page = "menu"
    /\ cp' = [cp EXCEPT !.page = "panel", !.last = "open"]
    /\ UNCHANGED <<cfg, twin, fsr, cm, auxVars, lnVars, storeVars, wr, rd, runVars>>

\* a worker's run() returns by itself (CameraWorker: "if not cap.isOpened():
\* return"; InferenceWorker: load_model raises); the object stays held
CpWorkerEnds(w) ==
    /\ cp[w] = "running"
    /\ cp' = [cp EXCEPT ![w] = "ended", !.last = "ends"]
    /\ UNCHANGED <<cfg, twin, fsr, cm, auxVars, lnVars, storeVars, wr, rd, runVars>>

InitControl ==
    /\ cfg \in ConfigFiles
    /\ Constructed(TRUE)
    /\ NoLauncher
    /\ AuxIdle

NextControl ==
    \/ \E w \in Workers : CpCheck(w)
    \/ CpToggle
    \/ CpReturn
    \/ CpOpen
    \/ \E w \in Workers : CpWorkerEnds(w)

SpecControl == InitControl /\ [][NextControl]_vars

(***************************************************************************)
(* ClassManager: the table of classes, the two line edits and the Add,     *)
(* Update and Delete buttons.  Texts are sequences of characters.          *)
(***************************************************************************)
MaxClasses == 2     \* classes the table holds at most

\* str.strip(): the text without its leading and trailing blanks
RECURSIVE LStrip(_)
LStrip(t) == IF t # <<>> /\ Head(t) = " " THEN LStrip(Tail(t)) ELSE t

RECURSIVE RStrip(_)
RStrip(t) == IF t # <<>> /\ t[Len(t)] = " " THEN RStrip(SubSeq(t, 1, Len(t) - 1)) ELSE t

Strip(t) == RStrip(LStrip(t))

RECURSIVE Decimal(_)
Decimal(n) ==
    IF n < 10 THEN <<CHOOSE c \in Digits : DigitVal(c) = n>>
    ELSE Append(Decimal(n \div 10), CHOOSE c \in Digits : DigitVal(c) = n % 10)

\* str(duration) of a float that is not negative: "1.0", "2.5"
StrFloat(d) == Decimal(d \div 10) \o <<".">> \o Decimal(d % 10)

\* what the user types into name_edit and duration_edit
NameTexts == {<<>>, <<" ">>, <<"a">>, <<"a", " ">>, <<"b">>}
DurationTexts == {<<"1">>, <<"2">>, <<"x">>}

\* bci_trainer/classes.json when the widget is built: absent, or one class
ClassFiles == {<<>>, <<[name |-> <<"a">>, duration |-> 10]>>}

\* "for cls in self.classes: if cls['name'] == name"
NameTaken(classes, name) == \E i \in 1..Len(classes) : classes[i].name = name

\* "selected < 0 or selected >= len(self.classes)"
NoRow(c) == c.row < 0 \/ c.row >= Len(c.classes)

\* del self.classes[selected], selected counted from 0
DelRow(classes, selected) ==
    SubSeq(classes, 1, selected) \o SubSeq(classes, selected + 2, Len(classes))

\* the ghost fields of a handler that starts in c
Called(c, op) ==
    [c EXCEPT !.last = op, !.prev = c.classes,
              !.arg = [name |-> Strip(c.name_edit), dur |-> Strip(c.duration_edit),
                       row |-> c.row]]

\* __init__: init_ui, then load_classes reads the file
CmOpen(file) ==
    /\ cm.pc = "none"
    /\ cm' = [CmNone EXCEPT !.pc = "open", !.classes = file, !.prev = file, !.last = "open"]
    /\ UNCHANGED <<cfg, twin, fsr, cp, auxVars, lnVars, storeVars, wr, rd, runVars>>

\* the user types into the two line edits
CmType(nameText, durationText) ==
    /\ cm.pc = "open"
    /\ cm' = [cm EXCEPT !.name_edit = nameText, !.duration_edit = durationText,
                        !.last = "type"]
    /\ UNCHANGED <<cfg, twin, fsr, cp, auxVars, lnVars, storeVars, wr, rd, runVars>>

\* the user selects a row of the table; itemSelectionChanged runs
\* load_selected_class
CmSelect(r) ==
    /\ cm.pc = "open"
    /\ r \in 0..(Len(cm.classes) - 1)
    /\ cm' = [cm EXCEPT !.row = r, !.name_edit = cm.classes[r + 1].name,
                        !.duration_edit = StrFloat(cm.classes[r + 1].duration),
                        !.last = "select"]
    /\ UNCHANGED <<cfg, twin, fsr, cp, auxVars, lnVars, storeVars, wr, rd, runVars>>

\* add_class
CmAdd ==
    /\ cm.pc = "open"
    /\ Len(cm.classes) < MaxClasses
    /\ LET c    == Called(cm, "add")
           name == Strip(cm.name_edit)
           dur  == Strip(cm.duration_edit)
       IN  cm' = IF ~FloatOk(dur) \/ name = <<>> \/ NameTaken(cm.classes, name)
                 THEN c
                 ELSE [c EXCEPT !.classes = Append(@, [name |-> name,
                                                      duration |-> FloatVal(dur)]),
                                !.name_edit = <<>>, !.duration_edit = <<>>]
    /\ UNCHANGED <<cfg, twin, fsr, cp, auxVars, lnVars, storeVars, wr, rd, runVars>>

\* update_class
CmUpdate ==
    /\ cm.pc = "open"
    /\ LET c    == Called(cm, "update")
           name == Strip(cm.name_edit)
           dur  == Strip(cm.duration_edit)
       IN  cm' = IF NoRow(cm) \/ ~FloatOk(dur) \/ name = <<>>
                 THEN c
                 ELSE [c EXCEPT !.classes[cm.row + 1] = [name |-> name,
                                                        duration |-> FloatVal(dur)]]
    /\ UNCHANGED <<cfg, twin, fsr, cp, auxVars, lnVars, storeVars, wr, rd, runVars>>

\* delete_class; refresh_table shrinks the table, and when the current row
\* was the last one the view has no current row or moves it to the new last
CmDelete ==
    /\ cm.pc = "open"
    /\ LET c == Called(cm, "delete")
       IN  IF NoRow(cm)
           THEN cm' = c
           ELSE \E r \in {0 - 1, Min(cm.row, Len(cm.classes) - 2)} :
                    cm' = [c EXCEPT !.classes = DelRow(@, cm.row),
                                    !.row = IF cm.row < Len(cm.classes) - 1 THEN cm.row
                                            ELSE r]
    /\ UNCHANGED <<cfg, twin, fsr, cp, auxVars, lnVars, storeVars, wr, rd, runVars>>

InitClasses ==
    /\ cfg \in ConfigFiles
    /\ Constructed(TRUE)
    /\ NoLauncher
    /\ AuxIdle

NextClasses ==
    \/ \E file \in ClassFiles : CmOpen(file)
    \/ \E nameText \in NameTexts, durationText \in DurationTexts : CmType(nameText, durationText)
    \/ \E r \in 0..(MaxClasses - 1) : CmSelect(r)
    \/ CmAdd
    \/ CmUpdate
    \/ CmDelete

SpecClasses == InitClasses /\ [][NextClasses]_vars

(***************************************************************************)
(* Reference definitions the claims are stated with                        *)
(***************************************************************************)
\* scipy.signal.lfilter over a whole sequence, from state z
RECURSIVE LfilterSeq(_, _, _, _)
LfilterSeq(b, a, xs, z) ==
    IF xs = <<>> THEN [y |-> <<>>, z |-> z]
    ELSE LET one  == Lfilter1(b, a, Head(xs), z)
             rest == LfilterSeq(b, a, Tail(xs), one.z)
         IN  [y |-> <<one.y>> \o rest.y, z |-> rest.z]

\* the raw samples of channel c, in arrival order
Column(c) == [k \in 1..Len(pushed) |-> pushed[k][c]]

\* channel c filtered in one pass from the initial states
WholePass(c) ==
    LET n  == LfilterSeq(b_notch, a_notch, Column(c), LfilterZi(b_notch, a_notch))
        bp == LfilterSeq(b_band, a_band, n.y, LfilterZi(b_band, a_band))
    IN  [y |-> bp.y, zn |-> n.z, zbp |-> bp.z]

\* the values a window holds for channel c
Values(res, c) == IF res.data = <<>> THEN <<>> ELSE res.data[c]

LastOf(s, n) == SubSeq(s, Len(s) - n + 1, Len(s))

HasResult == rd.kind # "none" /\ rd.pc \in {"idle", "done"}

(***************************************************************************)
(* C1: a window read that interleaves with _push returns a consistent      *)
(* snapshot: np.array does not raise, the time axis and all 9 channels     *)
(* have one length, and they are the suffix of the completely written      *)
(* time-steps that the time axis names.                                    *)
(***************************************************************************)
C1_ConsistentSnapshot ==
    rd.pc = "done" =>
        /\ ~rd.res.raised
        /\ \A c \in 1..NCH :
              /\ Len(Values(rd.res, c)) = Len(rd.res.t)
              /\ \A k \in 1..Len(rd.res.t) :
                    /\ rd.res.t[k] + 1 <= Len(WholePass(c).y)
                    /\ Values(rd.res, c)[k] = WholePass(c).y[rd.res.t[k] + 1]

(***************************************************************************)
(* C2: with S samples stored, a call with an explicit length L >= 0        *)
(* returns exactly min(L, S) samples per channel, the most recent ones in  *)
(* arrival order (so L is never replaced by another length).               *)
(***************************************************************************)
C2_WindowLength ==
    (rd.kind = "api" /\ rd.arg.given) =>
        LET m == Min(rd.arg.n, rd.S)
        IN  /\ ~rd.res.raised
            /\ Len(rd.res.t) = m
            /\ \A c \in 1..NCH :
                  Values(rd.res, c) = SubSeq(buffer[c], rd.S - m + 1, rd.S)

\* the same for the lengths the code does not replace (L >= 1)
C2_WindowLengthPositive ==
    (rd.kind = "api" /\ rd.arg.given /\ rd.arg.n >= 1) =>
        LET m == Min(rd.arg.n, rd.S)
        IN  /\ ~rd.res.raised
            /\ Len(rd.res.t) = m
            /\ \A c \in 1..NCH :
                  Values(rd.res, c) = SubSeq(buffer[c], rd.S - m + 1, rd.S)

(***************************************************************************)
(* C3: the store never holds more than DATA_LENGTH time-steps, and it      *)
(* holds the last min(DATA_LENGTH, pushed) filtered samples.               *)
(***************************************************************************)
C3_CapacityBounded ==
    LET cap == CfgGet("DATA_LENGTH")
    IN  /\ Len(times) <= cap
        /\ \A c \in 1..NCH :
              /\ Len(buffer[c]) <= cap
              /\ buffer[c] = LastOf(WholePass(c).y, Min(cap, Len(pushed)))

(***************************************************************************)
(* C4: after any number of pushes, one sample per call, every channel's    *)
(* stored output and both of its filter states equal those of filtering    *)
(* the channel's whole input in one pass from the initial states.          *)
(***************************************************************************)
C4_FilterContinuity ==
    \A c \in 1..NCH :
        /\ buffer[c] = WholePass(c).y
        /\ zi_n[c]   = WholePass(c).zn
        /\ zi_bp[c]  = WholePass(c).zbp

C4_Witness ==
    /\ Len(pushed) >= 3
    /\ Len(buffer[NCH]) = Len(pushed)
    /\ zi_n[1] # LfilterZi(b_notch, a_notch)
    /\ zi_bp[1] # LfilterZi(b_band, a_band)
    /\ pushed[1] # pushed[2]

(***************************************************************************)
(* C7: a window read that finds the store empty returns zero-length time   *)
(* axis and values and does not raise, whatever length was asked for and   *)
(* wherever the acquisition thread is.                                     *)
(***************************************************************************)
C7_EmptyStoreRead ==
    (rd.pc = "done" /\ times = <<>>) =>
        /\ ~rd.res.raised
        /\ rd.res.t = <<>>
        /\ \A c \in 1..NCH : Values(rd.res, c) = <<>>
        /\ Product(rd.res.shape) = 0

C7_Witness ==
    /\ rd.pc = "done"
    /\ times = <<>>
    /\ rd.arg = Arg(2)
    /\ wr.pc = "times"          \* all 9 channels hold a value, the index not yet

(***************************************************************************)
(* C8: every consumer that gets the empty window of an empty store skips   *)
(* its tick and raises nothing.                                            *)
(***************************************************************************)
C8_ConsumersSkipEmpty ==
    (rd.kind \notin {"none", "api"} /\ rd.pc = "idle" /\ rd.S = 0
        /\ rd.res = EmptyResult) => rd.out = "skip"

\* the consumers that test d.size do skip
C8_SizeTestingConsumersSkip ==
    (rd.kind \in {"waveform", "spectrum", "band", "recorder"} /\ rd.pc = "idle"
        /\ rd.S = 0 /\ rd.res = EmptyResult) => rd.out = "skip"

(***************************************************************************)
(* C5: every received line of the form Channel: and 9 comma-separated      *)
(* signed decimals is parsed and pushed exactly once: the store holds one  *)
(* time-step per such line, and the vectors pushed are the lines' values.  *)
(***************************************************************************)
SchemaLines == SelectSeq(seen, MatchesIntended)

C5_SchemaLinesStored ==
    /\ Len(times) = Len(SchemaLines)
    /\ Len(pushed) = Len(SchemaLines)
    /\ \A k \in 1..Len(pushed) :
          pushed[k] = [c \in 1..NCH |-> FloatVal(FieldsOf(SchemaLines[k])[c])]

(***************************************************************************)
(* C6: as long as only lines outside the record schema were received, no   *)
(* exception has ended the acquisition loop, and the store, the sample     *)
(* index and the filter states are as they were constructed.               *)
(***************************************************************************)
C6_NonSchemaLinesDropped ==
    (seen # <<>> /\ SchemaLines = <<>>) =>
        /\ th.pc # "crashed" \/ th.err \in {"PortNotOpen", "SerialException"}
        /\ times = <<>>
        /\ pushed = <<>>
        /\ \A c \in 1..NCH :
              /\ buffer[c] = <<>>
              /\ zi_n[c]  = LfilterZi(b_notch, a_notch)
              /\ zi_bp[c] = LfilterZi(b_band, a_band)

(***************************************************************************)
(* C9: when the port could not be opened (no USB device, or the open       *)
(* raised), _open_serial leaves a synthetic generator as Launcher.serial;  *)
(* the widgets built at start all hold that generator; no widget ever      *)
(* holds a source that is not ready or no source at all, and a read from   *)
(* the generator yields samples.                                           *)
(***************************************************************************)
AllHeld == {refs[c] : c \in Holders} \cup {panels[k] : k \in 1..Len(panels)}

C9_FallbackToSynthetic ==
    ln.pc = "up" =>
        /\ ln.last # "opened" =>
              /\ heap[ln.serial].kind = "dummy"
              /\ \A i \in AllHeld : heap[i].kind = "dummy"
        /\ (ln.first # "opened" /\ ln.n = 0) => AllHeld = {ln.serial}
        /\ \A i \in AllHeld : i \in 1..Len(heap) /\ (heap[i].kind = "dummy" \/ heap[i].ok)
        /\ got.kind = "dummy" => got.n > 0

C9_Witness ==
    /\ ln.pc = "up"
    /\ ln.first = "openfail"
    /\ ln.n = 0
    /\ got = [who |-> "control", kind |-> "dummy", n |-> 1]
    /\ heap[refs["control"]].t > 0

(***************************************************************************)
(* C10: once stop() has returned, the acquisition thread is outside its    *)
(* read loop and the serial port is not open, whenever stop() was called.  *)
(***************************************************************************)
C10_StopTerminatesProducer ==
    stp = "returned" => (th.pc \notin LoopPcs /\ sp # "open")

(***************************************************************************)
(* C11: once a read from the device has failed while streaming, the source *)
(* no longer reports itself healthy: ok and running are not both still     *)
(* True, so a caller can tell the failure from a running session.          *)
(***************************************************************************)
C11_ReadFailureSurfaced ==
    (th.pc = "crashed" /\ th.err = "SerialException") => ~(ok /\ running)

(***************************************************************************)
(* C12: a reconnect invoked while the session is Stopped (stop() has       *)
(* returned) or in Error (the acquisition thread died) constructs a new    *)
(* source, with its own filters and filter states, and installs it.        *)
(***************************************************************************)
SessionOver ==
    /\ ln.pc = "up"
    /\ heap[ln.serial].kind = "serial"
    /\ stp = "returned" \/ (stp = "idle" /\ th.pc = "crashed")

C12_ReconnectReplacesSession ==
    [][(SessionOver /\ ln'.n = ln.n + 1) =>
          (Len(heap') = Len(heap) + 1 /\ ln'.serial = Len(heap'))]_vars

(***************************************************************************)
(* C13: an invalid filter configuration (a band edge at or above Nyquist,  *)
(* or lo >= hi) makes the construction raise, and a construction that      *)
(* raised has left no serial port open and no thread started.              *)
(***************************************************************************)
InvalidFilterConfig == BandOutOfRange \/ BandReversed

C13_InvalidConfigRejectedCleanly ==
    /\ (InvalidFilterConfig /\ ctor.pc \notin {"none", "notch", "band"}) =>
          ctor.pc \in {"raised", "collected"}
    /\ (ctor.pc = "raised" /\ ctor.exc = "ValueError") => (sp # "open" /\ th.pc = "new")

(***************************************************************************)
(* C14: the chunks the synthetic generator has returned, to whichever      *)
(* callers, have n indices each, share no index, and between calls the     *)
(* counter equals the number of samples returned so far (no index is       *)
(* repeated, none is skipped).                                             *)
(***************************************************************************)
C14_ContiguousChunks ==
    /\ \A k \in 1..Len(dm.log) : dm.log[k].hi - dm.log[k].lo = dm.log[k].n
    /\ \A j, k \in 1..Len(dm.log) :
          j < k => (dm.log[j].hi <= dm.log[k].lo \/ dm.log[k].hi <= dm.log[j].lo)
    /\ (\A c \in Callers : dm.call[c].pc = "idle") =>
          dm.t = SumSeq([k \in 1..Len(dm.log) |-> dm.log[k].n])

\* the same for calls that do not overlap in time holds: see C14's reason
C14_SequentialChunks ==
    \A k \in 1..Len(dm.log) :
        (dm.log[k].by = "gui" /\ \A j \in 1..Len(dm.log) : dm.log[j].by = "gui") =>
            dm.log[k].hi - dm.log[k].lo = dm.log[k].n

(***************************************************************************)
(* C15: a spectrum drawn with a configured range whose fmin exceeds fmax   *)
(* is the spectrum of the same window for the two bounds swapped: the bins *)
(* between the smaller and the larger bound with their magnitudes, and not *)
(* an empty range when bins lie between them.  (The trainer's panel draws  *)
(* 3 to 50 Hz whatever the configured order.)                              *)
(***************************************************************************)
BinsBetween(n, lo, hi) ==
    LET f == RfftFreq(n, CfgGet("SAMPLE_RATE"))
    IN  {k \in 1..Len(f) : lo * n <= f[k].num /\ f[k].num <= hi * n}

C15_ReversedRangeSwapped ==
    (calc.out = "drawn" /\ CfgGet("FFT_FREQ_MIN") > CfgGet("FFT_FREQ_MAX")) =>
        /\ calc.kind = "mon_spectrum" =>
              LET n  == CfgGet("FFT_LENGTH")
                  bs == BinsBetween(n, CfgGet("FFT_FREQ_MAX"), CfgGet("FFT_FREQ_MIN"))
              IN  /\ calc = MonitorSpectrumOf(calc.win, calc.act, n,
                                              CfgGet("SAMPLE_RATE"),
                                              CfgGet("FFT_FREQ_MAX"),
                                              CfgGet("FFT_FREQ_MIN"))
                  /\ Len(calc.freqs) = Cardinality(bs)
                  /\ \A i \in calc.act : Len(calc.curves[i + 1]) = Cardinality(bs)
        /\ (calc.kind = "tr_spectrum" /\ calc.act # {}) =>
              Len(calc.freqs) = Cardinality(BinsBetween(Len(calc.win.data[1]), 3, 50))

C15_Witness ==
    /\ calc.kind = "mon_spectrum"
    /\ calc.out = "drawn"
    /\ CfgGet("FFT_FREQ_MIN") = 3
    /\ CfgGet("FFT_FREQ_MAX") = 1
    /\ calc.act = {1, 8}
    /\ Len(calc.freqs) = 2
    /\ \E k \in 1..2 : calc.curves[2][k] # 0

(***************************************************************************)
(* C16: a band-power tick with no channel ticked never builds a combined   *)
(* signal and raises nothing: on a window with samples it shows "No        *)
(* channels selected" (on the empty window it is skipped as every tick).   *)
(***************************************************************************)
C16_NoChannelsNoInput ==
    (calc.kind \in {"mon_band", "tr_band"} /\ calc.act = {}) =>
        /\ calc.out = IF SizeOf(calc.win) = 0 THEN "skip" ELSE "No channels selected"
        /\ calc.curves = <<>>
        /\ calc.bins = <<>>

C16_Witness ==
    /\ calc.kind = "tr_band"
    /\ calc.act = {}
    /\ calc.out = "No channels selected"
    /\ Len(calc.win.data[1]) = 1

(***************************************************************************)
(* C17: a band-power tick over a window that holds samples, however few    *)
(* (down to one), with channels ticked, draws its bars and raises nothing. *)
(***************************************************************************)
C17_ShortWindowBandpower ==
    (calc.kind \in {"mon_band", "tr_band"} /\ calc.act # {} /\ SizeOf(calc.win) > 0) =>
        calc.out = "drawn"

\* with two samples or more it does
C17_TwoSamplesBandpower ==
    (calc.kind \in {"mon_band", "tr_band"} /\ calc.act # {} /\ SizeOf(calc.win) > NCH) =>
        calc.out = "drawn"

(***************************************************************************)
(* C18: every non-empty window read during a session has the time axis     *)
(* (start_index + i) / sample_rate, with start_index the index of the      *)
(* oldest returned sample and sample_rate the rate the session was built   *)
(* with (the rate its filters are designed for), also for reads made after *)
(* the configuration was reloaded.                                         *)
(***************************************************************************)
C18_TimeAxisAtSessionRate ==
    (rd.out # "none" /\ rd.res.t # <<>>) =>
        /\ rd.res.fs = ctor.fs
        /\ \A i \in 1..Len(rd.res.t) :
              rd.res.t[i] = Max(0, rd.S - rd.length) + (i - 1)

\* the indices are those of the returned samples, at whichever rate
C18_TimeAxisIndices ==
    (rd.out # "none" /\ rd.res.t # <<>>) =>
        \A i \in 1..Len(rd.res.t) :
            rd.res.t[i] = Max(0, rd.S - rd.length) + (i - 1)

(***************************************************************************)
(* C19: when all requested repetitions are recorded and the user chooses a *)
(* file name, finish_sequence writes the file with the class name, the     *)
(* duration and the recordings, for every configuration, and raises        *)
(* nothing before writing.                                                 *)
(***************************************************************************)
C19_SequenceSaved ==
    (rec.pc \in {"saved", "raised"} /\ rec.asked # "") =>
        /\ rec.exc = "none"
        /\ rec.file # <<>>
        /\ rec.file.class_name = rec.info.name
        /\ rec.file.duration = rec.info.duration
        /\ rec.file.recordings = rec.recordings

\* the dialog is reached with exactly the requested repetitions recorded
C19_AllRepetitionsRecorded ==
    (rec.pc \in {"saved", "raised", "cancelled"}) =>
        (Len(rec.recordings) = rec.total /\ rec.current = rec.total)

(***************************************************************************)
(* C20: whenever a sample vector is pushed, every channel's value goes     *)
(* through the notch stage first, from that channel's notch state, and its *)
(* output through the range-limiting stage, from that channel's band-pass  *)
(* state; the band-pass output is what is stored, and each of the two      *)
(* states becomes the state its stage returned, once per pushed vector, in *)
(* the order of arrival.  A step that pushes nothing leaves both states.   *)
(***************************************************************************)
C20_StageOrder ==
    [][ /\ Len(pushed') \in {Len(pushed), Len(pushed) + 1}
        /\ SubSeq(pushed', 1, Len(pushed)) = pushed
        /\ (pushed' = pushed) => (zi_n' = zi_n /\ zi_bp' = zi_bp /\ buffer' = buffer)
        /\ (pushed' # pushed) =>
              \A c \in 1..NCH :
                  LET v     == pushed'[Len(pushed')][c]
                      notch == Lfilter1(b_notch, a_notch, v, zi_n[c])
                      band  == Lfilter1(b_band, a_band, notch.y, zi_bp[c])
                  IN  /\ zi_n'[c]   = notch.z
                      /\ zi_bp'[c]  = band.z
                      /\ buffer'[c] = Append(buffer[c], band.y) ]_vars

C20_Witness ==
    /\ Len(pushed) = 2
    /\ \A c \in 1..NCH : Len(buffer[c]) = 2
    /\ \E c \in 1..NCH :
          /\ zi_n[c] # LfilterZi(b_notch, a_notch)
          /\ zi_bp[c] # LfilterZi(b_band, a_band)
          /\ zi_n[c] # zi_bp[c]
          /\ buffer[c][2] # Lfilter1(b_notch, a_notch, pushed[2][c],
                                     Lfilter1(b_notch, a_notch, pushed[1][c],
                                              LfilterZi(b_notch, a_notch)).z).y

(***************************************************************************)
(* C21: filter state is private to its channel and stage.  For two runs    *)
(* whose inputs agree on channel c (whatever the other channels carry),    *)
(* the filtered values of c agree push for push, and after equally many    *)
(* pushes so do both stage states of c.                                    *)
(***************************************************************************)
AgreeOn(c, k) == \A j \in 1..k : pushed[j][c] = twin.pushed[j][c]

C21_ChannelIsolation ==
    twin.on =>
        \A c \in 1..NCH :
            LET k == Min(Len(pushed), Len(twin.pushed))
            IN  AgreeOn(c, k) =>
                  /\ SubSeq(buffer[c], 1, k) = SubSeq(twin.buffer[c], 1, k)
                  /\ (Len(pushed) = Len(twin.pushed)) =>
                        (zi_n[c] = twin.zi_n[c] /\ zi_bp[c] = twin.zi_bp[c])

C21_Witness ==
    /\ twin.on
    /\ Len(pushed) = 2
    /\ Len(twin.pushed) = 2
    /\ AgreeOn(1, 2)
    /\ pushed[1][2] # twin.pushed[1][2]
    /\ buffer[2] # twin.buffer[2]
    /\ zi_n[2] # twin.zi_n[2]
    /\ buffer[1] = twin.buffer[1]

(***************************************************************************)
(* C22: the start byte is written at most once, only on a port that was    *)
(* opened, and before any line is read: a thread inside its read loop, or  *)
(* one that left it, has written it exactly once, and a source whose open  *)
(* failed never writes it.  stop() closes an open port, and once closed    *)
(* the port stays closed: a further stop() finds it closed, closes nothing *)
(* and returns.                                                            *)
(***************************************************************************)
C22_HandshakeOnce ==
    /\ [](/\ Len(tx) <= 1
          /\ tx # <<>> => ok
          /\ seen # <<>> => tx = <<"1">>
          /\ (ok /\ th.pc \in LoopPcs \cup {"done"}) => tx = <<"1">>
          /\ th.err # "AttributeError")
    /\ [][ /\ sp = "closed" => sp' = "closed"
           /\ (stp = "close" /\ stp' # stp) =>
                 (stp' = "returned" /\ sp' # "open" /\ (sp # "open" => sp' = sp))
           /\ tx' # tx => (sp = "open" /\ th.pc = "write" /\ seen = <<>>) ]_vars

\* a second stop() about to test a port the first one closed, after a
\* session that shook hands and read lines
C22_Witness ==
    /\ stp = "close"
    /\ sp = "closed"
    /\ tx = <<"1">>
    /\ seen # <<>>
    /\ th.pc = "done"

(***************************************************************************)
(* C23: whenever no push is under way, the k-th entry of the index list is *)
(* k - 1 (0, 1, 2, ... without gap or repeat), there is one entry per      *)
(* pushed vector, and each of the nine channel histories is as long as the *)
(* index list: one index per time-step, shared by all channels.            *)
(***************************************************************************)
C23_SampleIndexMonotonic ==
    wr.pc = "idle" =>
        /\ \A k \in 1..Len(times) : times[k] = k - 1
        /\ Len(times) = Len(pushed)
        /\ \A c \in 1..NCH : Len(buffer[c]) = Len(times)

\* two pushes completed, the second while a reader was inside _slice
C23_Witness ==
    /\ wr.pc = "idle"
    /\ times = <<0, 1>>
    /\ \A c \in 1..NCH : Len(buffer[c]) = 2
    /\ rd.pc # "idle"

(***************************************************************************)
(* C24: what a spectrum tick transforms for an active channel is exactly   *)
(* the samples read from the store for that channel, without any value     *)
(* that was not stored (no zero-padding when fewer than nfft samples are   *)
(* stored), and it draws as many magnitudes as frequencies.                *)
(***************************************************************************)
C24_TransformsStoredSamples ==
    (calc.kind \in {"mon_spectrum", "tr_spectrum"} /\ calc.out = "drawn") =>
        \A i \in calc.act :
            /\ calc.xin[i + 1] = calc.win.data[i + 1]
            /\ Len(calc.curves[i + 1]) = Len(calc.freqs)

\* magnitudes and frequencies always pair up
C24_MagnitudesMatchBins ==
    (calc.kind \in {"mon_spectrum", "tr_spectrum"} /\ calc.out = "drawn") =>
        \A i \in calc.act : Len(calc.curves[i + 1]) = Len(calc.freqs)

\* and with nfft samples stored the monitor transforms just those
C24_FullWindowTransformed ==
    (calc.kind = "mon_spectrum" /\ calc.out = "drawn"
        /\ Len(calc.win.data[1]) = CfgGet("FFT_LENGTH")) =>
        \A i \in calc.act : calc.xin[i + 1] = calc.win.data[i + 1]

(***************************************************************************)
(* C25: a FullScreenRecorder goes through phases 0, 1, 2, 3, 4 and closes; *)
(* each phase lasts one timer period, of that phase's duration (so one     *)
(* period of phase_times[4] lies between the end of recording and the      *)
(* close); samples are collected only in phase 3; recording_finished is    *)
(* emitted once, at the end of phase 3.                                    *)
(***************************************************************************)
C25_PhaseSequence ==
    /\ fsr.is_recording => fsr.phase = 3
    /\ Len(fsr.emitted) <= 1
    /\ \A k \in 1..Len(fsr.log) :
          fsr.log[k] = [phase |-> k - 1, period |-> k - 1]
    /\ fsr.pc = "closed" => (Len(fsr.log) = NPhases /\ fsr.emitted = <<3>>)

\* the order of the phases and the single emission by themselves
C25_PhaseOrder ==
    /\ fsr.is_recording => fsr.phase = 3
    /\ Len(fsr.emitted) <= 1
    /\ \A k \in 1..Len(fsr.log) : k > 1 => fsr.log[k].phase >= fsr.log[k - 1].phase
    /\ fsr.pc = "closed" => (fsr.phase = NPhases /\ fsr.emitted = <<3>>)

(***************************************************************************)
(* C27: what a FullScreenRecorder has collected holds every stored sample  *)
(* at most once and in arrival order (successive snapshots do not          *)
(* overlap), and no sample that was stored before the recording started.   *)
(***************************************************************************)
RECURSIVE Hstack(_)
\* np.hstack(self.recording_data), as sample indices
Hstack(snaps) == IF snaps = <<>> THEN <<>> ELSE Head(snaps) \o Hstack(Tail(snaps))

C27_CollectedOnce ==
    LET all == Hstack(fsr.data)
    IN  /\ \A i, j \in 1..Len(all) : i < j => all[i] < all[j]
        /\ \A i \in 1..Len(all) : all[i] >= fsr.since

\* within one snapshot the samples are in arrival order, once each
C27_SnapshotOrdered ==
    \A k \in 1..Len(fsr.data) :
        \A i, j \in 1..Len(fsr.data[k]) : i < j => fsr.data[k][i] < fsr.data[k][j]

(***************************************************************************)
(* C26: every consumer reads from the launcher's current source, also      *)
(* after reconnect_serial replaced it: the trainer window and its plot,    *)
(* recorder and inference widgets, the monitor window and each of its      *)
(* panels, and the control panel all hold Launcher.serial.                 *)
(***************************************************************************)
C26_ConsumersFollowReconnect ==
    ln.pc = "up" =>
        /\ \A c \in Holders : refs[c] = ln.serial
        /\ \A k \in 1..Len(panels) : panels[k] = ln.serial

\* until the source is replaced they all do
C26_ConsumersHoldFirstSource ==
    (ln.pc = "up" /\ Len(heap) = 1) =>
        /\ \A c \in Holders : refs[c] = ln.serial
        /\ \A k \in 1..Len(panels) : panels[k] = ln.serial

(***************************************************************************)
(* C28: in a recording sequence of N repetitions, whatever the order of    *)
(* timer events and Start presses, current_rep never exceeds total_rep,    *)
(* and whenever finish_sequence runs the recordings list holds exactly N   *)
(* recordings, all made by recorders of that sequence; this is stated for  *)
(* the runs in which a window is deleted as soon as self.recorder is       *)
(* rebound, so that never more than one exists.  (C28_OneRecorder is the   *)
(* count of windows in all runs.)                                          *)
(***************************************************************************)
C28_SequenceIntegrity ==
    ~rec.outlived =>
        /\ Cardinality(rec.live) <= 1
        /\ rec.current <= rec.total
        /\ \A k \in 1..Len(rec.fin) :
              /\ Len(rec.fin[k].held) = rec.fin[k].total
              /\ \A i \in 1..Len(rec.fin[k].held) :
                    rec.fin[k].held[i].gen = rec.fin[k].gen

C28_OneRecorder == Cardinality(rec.live) <= 1

\* current_rep by itself stays within total_rep
C28_CurrentWithinTotal == rec.current <= rec.total

(***************************************************************************)
(* C29: in the control panel, after any toggles and returns to the menu,   *)
(* returning to the main menu leaves no worker running, whether or not     *)
(* workers were running before, and the button reads "STOP ALL" exactly    *)
(* when at least one worker is running.  The first part is                 *)
(* C29_ReturnStopsWorkers, the second C29_ButtonMatchesWorkers.            *)
(***************************************************************************)
C29_ReturnStopsWorkers ==
    cp.last = "return" => ~AnyWorkerRunning(cp)

C29_ButtonMatchesWorkers ==
    cp.btn = "STOP ALL" <=> AnyWorkerRunning(cp)

\* a return made while workers are held does stop them
C29_ReturnWhileRunning ==
    [][(cp'.last = "return" /\ cp' # cp /\ AnyWorkerHeld(cp)) =>
          ~AnyWorkerRunning(cp')]_vars

NamesDistinct(classes) ==
    \A i, j \in 1..Len(classes) : i # j => classes[i].name # classes[j].name

NamesNonEmpty(classes) == \A i \in 1..Len(classes) : classes[i].name # <<>>

CmOps == {"add", "update", "delete"}

\* the operation that ran last is one the claim says is rejected: a name that
\* is empty, or that a class (for update_class, another class than the row
\* updated) already has; a duration that is not a number; no valid row
CmMustReject ==
    LET noRow == cm.arg.row < 0 \/ cm.arg.row >= Len(cm.prev)
    IN  \/ /\ cm.last = "add"
           /\ cm.arg.name = <<>> \/ ~FloatOk(cm.arg.dur) \/ NameTaken(cm.prev, cm.arg.name)
        \/ /\ cm.last = "update"
           /\ \/ noRow
              \/ cm.arg.name = <<>>
              \/ ~FloatOk(cm.arg.dur)
              \/ \E i \in 1..Len(cm.prev) : i # cm.arg.row + 1 /\ cm.prev[i].name = cm.arg.name
        \/ /\ cm.last = "delete"
           /\ noRow

(***************************************************************************)
(* C30: after any add_class, update_class or delete_class of the           *)
(* ClassManager, the class names are pairwise distinct and non-empty, and  *)
(* a rejected operation (duplicate name, empty name, non-numeric duration, *)
(* no valid row selected) leaves the class list unchanged.                 *)
(***************************************************************************)
C30_ClassList ==
    cm.last \in CmOps =>
        /\ NamesDistinct(cm.classes)
        /\ NamesNonEmpty(cm.classes)
        /\ CmMustReject => cm.classes = cm.prev

\* the parts of C30 by themselves
C30_NamesDistinct == cm.last \in CmOps => NamesDistinct(cm.classes)

C30_NamesNonEmpty == cm.last \in CmOps => NamesNonEmpty(cm.classes)

C30_RejectedUnchanged == (cm.last \in CmOps /\ CmMustReject) => cm.classes = cm.prev

\* add_class by itself never makes two names equal
C30_AddKeepsDistinct ==
    [][(cm'.last = "add" /\ cm' # cm /\ NamesDistinct(cm.classes)) =>
          NamesDistinct(cm'.classes)]_vars

\* what the code rejects (everything above but update_class to a name another
\* class has) leaves the list unchanged
C30_CodeRejectsUnchanged ==
    (cm.last \in CmOps /\ CmMustReject
       /\ ~(cm.last = "update" /\ cm.arg.name # <<>> /\ FloatOk(cm.arg.dur)))
        => cm.classes = cm.prev

====
